---- MODULE Spec2Model ----
(***************************************************************************)
(* Model of the auto-remediation bot (src/bot): the circuit breaker        *)
(* (circuit_breaker.py), the detector chain (detectors.py), the            *)
(* remediation strategy (remediation.py) and the monitor loop with its     *)
(* deduplicator and persistence calls (bot.py).                            *)
(*                                                                         *)
(* Time is in whole seconds (time.time()).  Rates are in per-mille, so     *)
(* the error-rate threshold 0.2 is 200.                                    *)
(*                                                                         *)
(* The specifications share the variables:                                 *)
(*   Spec         the monitor loop AutoRemediationBot.run driving          *)
(*                everything;                                              *)
(*   SpecTrip     the loop fed a run of error-rate ticks;                  *)
(*   SpecProbe    the loop fed a run of failing probes;                    *)
(*   SpecConfig   the loop with the thresholds read from table config;     *)
(*   SpecPredict  the loop with the failure predictor loaded;              *)
(*   SpecDetect   the detector chain called directly;                      *)
(*   SpecCleanup  the retention sweep of cleanup.py;                       *)
(*   SpecResolve  update_incident_resolved called directly;                *)
(*   SpecActuator the container operations of RemediationExecutor;         *)
(*   SpecFaults   the loop with the cleanup and with exceptions that       *)
(*                reach the try of run (FairSpecFaults: with fairness);    *)
(*   SpecShutdown the loop stopped by KeyboardInterrupt;                   *)
(*   SpecNotify   the loop with the outcomes of its notifications;         *)
(*   SpecCB       a client calling the CircuitBreaker API directly         *)
(*                (can_execute, record_action, reset), as the unit test    *)
(*                does;                                                    *)
(*   SpecFill     a client recording more attempts than the history keeps; *)
(*   SpecDrain    a client that records, stops and then polls can_execute  *)
(*                (FairSpecDrain: with fairness).                          *)
(***************************************************************************)
EXTENDS Integers, Sequences, FiniteSets, TLC

VARIABLES
    now,                \* time.time()
    circuit_state,      \* CircuitBreaker.circuit_state: service -> state record
    action_history,     \* CircuitBreaker.action_history: (service, action_type) -> deque
    last_incident_time, \* AutoRemediationBot.last_incident_time: type -> time (0 = absent)
    db_incidents,       \* rows of table incidents
    db_actions,         \* rows of table remediation_actions
    pc,                 \* position of the monitor loop
    health,             \* health_data of the current iteration (NoHealth = None)
    pending,            \* incidents of the current iteration not yet handled
    handled,            \* history: deduplicator decisions of the current iteration
    passed,             \* history: incidents that passed the deduplicator
    started,            \* history: execute_action calls started by the loop
    opened,             \* history: transitions to OPEN made by can_execute in the loop
    gate,               \* history: the last can_execute call of the loop
    db_faults,          \* number of database operations that failed so far
    iteration,          \* iteration of the while loop of run
    last_call,          \* history (SpecCB): the last two API calls of the client
    calls,              \* history (SpecCB): number of API calls made
    last_cleanup,       \* history (SpecCleanup): the last cleanup_old_records call
    incident_seq,       \* (SpecCleanup) the serial that numbers the rows of incidents
    containers,         \* the container runtime: container name -> status
    last_op,            \* history (SpecActuator): the last call of the executor
    last_failure_check_time,  \* AutoRemediationBot.last_failure_check_time
    last_predicted_time,      \* last_incident_time["predicted_failure_<risk_level>"] (0 = absent)
    detector_thresholds,      \* the thresholds the detectors hold (self.thresholds)
    config_thresholds,        \* table config, row 'thresholds' (NoConfig = no row)
    last_refresh,             \* history: the last update_thresholds_from_db call
    detected,           \* history (SpecDetect): the last detect_all call
    last_cleanup_time,  \* AutoRemediationBot.last_cleanup_time
    cleanup_log,        \* history: the cleanup runs of run_cleanup_if_needed
    raised,             \* history: the last exception that reached the try of run
    notified            \* history: the notifications of the last pass of handle_incidents

vars == <<now, circuit_state, action_history, last_incident_time, db_incidents,
          db_actions, pc, health, pending, handled, passed, started, opened,
          gate, db_faults, iteration, last_call, calls, last_cleanup,
          incident_seq, containers, last_op, last_failure_check_time,
          last_predicted_time, detector_thresholds, config_thresholds,
          last_refresh, detected, last_cleanup_time, cleanup_log, raised,
          notified>>

breakerVars == <<circuit_state, action_history>>
botVars == <<last_incident_time, db_incidents, db_actions, pc, health, pending,
             handled, passed, started, opened, gate>>
clientVars == <<last_call, calls>>
cleanupVars == <<last_cleanup, incident_seq>>
actuatorVars == <<containers, last_op>>
predictVars == <<last_failure_check_time, last_predicted_time>>
configVars == <<detector_thresholds, config_thresholds, last_refresh>>
detectVars == <<detected>>
loopVars == <<last_cleanup_time, cleanup_log, raised, notified>>
sideVars == <<predictVars, configVars, detectVars, loopVars>>

-----------------------------------------------------------------------------
(* Program constants *)

None == -1

max_failures == 3

window_seconds == 300

cooldown_seconds == 120

incident_dedupe_window == 60

poll_seconds == 5

HistoryMaxLen == 100

error_rate_threshold == 200

cpu_percent_threshold == 80

response_time_ms_threshold == 500

ml_anomaly_severity == 70

ml_critical_severity == 85

retention_days == 180

failure_check_interval == 300

predicted_alert_window == 600

refresh_interval == 10

cleanup_interval_hours == 24

SecondsPerHour == 3600

SecondsPerDay == 86400

(* Bounds of the model *)

MaxElapsed == 425

MaxIterations == 3

MaxDbFaults == 1

MaxCalls == 7

MaxTicks == 5

MaxRows == 2

MaxRetentionPeriods == 2

MaxConfigIterations == 11

MaxRecords == 102

MaxDrainCalls == 4

-----------------------------------------------------------------------------
(* Domains *)

Targets == {"ar_app"}

\* The containers the executor is called on: the primary app and its replica.
Containers == {"ar_app", "ar_app_replica"}

ActionTypes == {"restart_container", "start_replica"}

\* risk_level values for which _check_failure_prediction logs an incident
RiskLevels == {"high", "medium"}

IncidentTypes == {"health_check_failed", "high_error_rate", "cpu_spike",
                  "high_response_time", "ml_anomaly"}

\* The clock starts late enough that the default 0 of
\* last_incident_time.get(type, 0) is older than every window, as with the
\* Unix epoch.
StartTime == window_seconds + cooldown_seconds + incident_dedupe_window

MaxTime == StartTime + MaxElapsed

NoHealth == [ok |-> FALSE, error_rate |-> 0, cpu_usage_percent |-> 0,
             response_time_p95_ms |-> 0, cpu_spike |-> FALSE,
             anomaly_severity |-> 0]

\* anomaly_severity is the severity the anomaly model predicts for the
\* metrics, 0 when it predicts no anomaly or no model is loaded.
Snapshot(error_rate, cpu, p95, flag, anomaly) ==
    [ok |-> TRUE, error_rate |-> error_rate, cpu_usage_percent |-> cpu,
     response_time_p95_ms |-> p95, cpu_spike |-> flag,
     anomaly_severity |-> anomaly]

\* Health snapshots the probe can return (response_time_p95_ms = 0 stands for
\* null): healthy, an error-rate breach, the cpu_spike flag with a CPU usage
\* below the threshold, a breach of all three thresholds, and an anomaly
\* with every metric below its threshold.
Snapshots ==
    {Snapshot(100, 50, 0, FALSE, 0), Snapshot(500, 50, 0, FALSE, 0),
     Snapshot(100, 50, 0, TRUE, 0), Snapshot(700, 97, 1200, FALSE, 0),
     Snapshot(100, 50, 0, FALSE, 90)}

\* Time between the end of one iteration and the start of the next:
\* time.sleep(poll_seconds), or longer when several quiet iterations pass.
SleepTimes == {poll_seconds, incident_dedupe_window, cooldown_seconds + 1,
               window_seconds}

\* Outcomes of the container runtime for restart_container: the status read
\* back after the restart and the seconds the call took.
ExecOutcomes == {[status |-> "not_found", seconds |-> 0],
                 [status |-> "running", seconds |-> 2]}

-----------------------------------------------------------------------------
(* circuit_breaker.py *)

FreshCircuit ==
    [state |-> "CLOSED", opened_at |-> None, last_attempt |-> None,
     failure_count |-> 0]

\* while action_times and action_times[0] < cutoff_time: action_times.popleft()
RECURSIVE Evict(_, _)
Evict(action_times, cutoff_time) ==
    IF action_times # <<>> /\ action_times[1] < cutoff_time
    THEN Evict(Tail(action_times), cutoff_time)
    ELSE action_times

\* append to a deque without maxlen.
DequeAppend_unbounded(action_times, t) == Append(action_times, t)

\* deque(maxlen=100).append
DequeAppend(action_times, t) ==
    IF Len(action_times) >= HistoryMaxLen
    THEN Append(Tail(action_times), t)
    ELSE Append(action_times, t)

\* can_execute with the window test off by one (> instead of >=).
can_execute_off_by_one(state, action_times, current_time) ==
    IF state.state = "OPEN" /\ current_time - state.opened_at < cooldown_seconds
    THEN [allowed |-> FALSE, reason |-> "cooldown", state |-> state,
          action_times |-> action_times]
    ELSE LET s1 == IF state.state = "OPEN"
                   THEN [state EXCEPT !.state = "HALF_OPEN"]
                   ELSE state
             h1 == Evict(action_times, current_time - window_seconds)
         IN  IF Len(h1) > max_failures
             THEN [allowed |-> FALSE, reason |-> "window",
                   state |-> [s1 EXCEPT !.state = "OPEN",
                                        !.opened_at = current_time,
                                        !.failure_count = Len(h1)],
                   action_times |-> h1]
             ELSE [allowed |-> TRUE, reason |-> "none", state |-> s1,
                   action_times |-> h1]

\* can_execute with the cooldown test reversed (> instead of <).
can_execute_cooldown_reversed(state, action_times, current_time) ==
    IF state.state = "OPEN" /\ current_time - state.opened_at > cooldown_seconds
    THEN [allowed |-> FALSE, reason |-> "cooldown", state |-> state,
          action_times |-> action_times]
    ELSE LET s1 == IF state.state = "OPEN"
                   THEN [state EXCEPT !.state = "HALF_OPEN"]
                   ELSE state
             h1 == Evict(action_times, current_time - window_seconds)
         IN  IF Len(h1) >= max_failures
             THEN [allowed |-> FALSE, reason |-> "window",
                   state |-> [s1 EXCEPT !.state = "OPEN",
                                        !.opened_at = current_time,
                                        !.failure_count = Len(h1)],
                   action_times |-> h1]
             ELSE [allowed |-> TRUE, reason |-> "none", state |-> s1,
                   action_times |-> h1]

\* can_execute that never removes the attempts that left the window.
can_execute_no_eviction(state, action_times, current_time) ==
    IF state.state = "OPEN" /\ current_time - state.opened_at < cooldown_seconds
    THEN [allowed |-> FALSE, reason |-> "cooldown", state |-> state,
          action_times |-> action_times]
    ELSE LET s1 == IF state.state = "OPEN"
                   THEN [state EXCEPT !.state = "HALF_OPEN"]
                   ELSE state
         IN  IF Len(action_times) >= max_failures
             THEN [allowed |-> FALSE, reason |-> "window",
                   state |-> [s1 EXCEPT !.state = "OPEN",
                                        !.opened_at = current_time,
                                        !.failure_count = Len(action_times)],
                   action_times |-> action_times]
             ELSE [allowed |-> TRUE, reason |-> "none", state |-> s1,
                   action_times |-> action_times]

\* CircuitBreaker.can_execute on the state record of the service and the
\* deque of the key, at current_time.  Returns the verdict and both updated.
can_execute(state, action_times, current_time) ==
    IF state.state = "OPEN" /\ current_time - state.opened_at < cooldown_seconds
    THEN [allowed |-> FALSE, reason |-> "cooldown", state |-> state,
          action_times |-> action_times]
    ELSE LET s1 == IF state.state = "OPEN"
                   THEN [state EXCEPT !.state = "HALF_OPEN"]
                   ELSE state
             h1 == Evict(action_times, current_time - window_seconds)
         IN  IF Len(h1) >= max_failures
             THEN [allowed |-> FALSE, reason |-> "window",
                   state |-> [s1 EXCEPT !.state = "OPEN",
                                        !.opened_at = current_time,
                                        !.failure_count = Len(h1)],
                   action_times |-> h1]
             ELSE [allowed |-> TRUE, reason |-> "none", state |-> s1,
                   action_times |-> h1]

\* record_action that appends to the history only the failed attempts.
record_action_failures_only(state, action_times, current_time, success) ==
    LET s1 == [state EXCEPT !.last_attempt = current_time]
    IN  [action_times |-> IF success THEN action_times
                          ELSE DequeAppend(action_times, current_time),
         state |-> IF success /\ s1.state = "HALF_OPEN"
                   THEN [s1 EXCEPT !.state = "CLOSED", !.opened_at = None,
                                   !.failure_count = 0]
                   ELSE IF ~success
                        THEN [s1 EXCEPT !.failure_count = @ + 1]
                        ELSE s1]

\* record_action that closes the circuit from OPEN instead of HALF_OPEN.
record_action_closes_from_open(state, action_times, current_time, success) ==
    LET s1 == [state EXCEPT !.last_attempt = current_time]
    IN  [action_times |-> DequeAppend(action_times, current_time),
         state |-> IF success /\ s1.state = "OPEN"
                   THEN [s1 EXCEPT !.state = "CLOSED", !.opened_at = None,
                                   !.failure_count = 0]
                   ELSE IF ~success
                        THEN [s1 EXCEPT !.failure_count = @ + 1]
                        ELSE s1]

\* record_action that leaves failed attempts out of the history.
record_action_successes_only(state, action_times, current_time, success) ==
    LET s1 == [state EXCEPT !.last_attempt = current_time]
    IN  [action_times |-> IF success THEN DequeAppend(action_times, current_time)
                          ELSE action_times,
         state |-> IF success /\ s1.state = "HALF_OPEN"
                   THEN [s1 EXCEPT !.state = "CLOSED", !.opened_at = None,
                                   !.failure_count = 0]
                   ELSE IF ~success
                        THEN [s1 EXCEPT !.failure_count = @ + 1]
                        ELSE s1]

\* record_action that closes the circuit without clearing opened_at.
record_action_keeps_opened_at(state, action_times, current_time, success) ==
    LET s1 == [state EXCEPT !.last_attempt = current_time]
    IN  [action_times |-> DequeAppend(action_times, current_time),
         state |-> IF success /\ s1.state = "HALF_OPEN"
                   THEN [s1 EXCEPT !.state = "CLOSED", !.failure_count = 0]
                   ELSE IF ~success
                        THEN [s1 EXCEPT !.failure_count = @ + 1]
                        ELSE s1]

\* record_action that opens the circuit itself once max_failures failed
\* attempts were counted.
record_action_opens_on_failure(state, action_times, current_time, success) ==
    LET s1 == [state EXCEPT !.last_attempt = current_time]
    IN  [action_times |-> DequeAppend(action_times, current_time),
         state |-> IF success /\ s1.state = "HALF_OPEN"
                   THEN [s1 EXCEPT !.state = "CLOSED", !.opened_at = None,
                                   !.failure_count = 0]
                   ELSE IF ~success
                        THEN IF s1.failure_count + 1 >= max_failures
                             THEN [s1 EXCEPT !.failure_count = @ + 1,
                                             !.state = "OPEN",
                                             !.opened_at = current_time]
                             ELSE [s1 EXCEPT !.failure_count = @ + 1]
                        ELSE s1]

\* CircuitBreaker.record_action
record_action(state, action_times, current_time, success) ==
    LET s1 == [state EXCEPT !.last_attempt = current_time]
    IN  [action_times |-> DequeAppend(action_times, current_time),
         state |-> IF success /\ s1.state = "HALF_OPEN"
                   THEN [s1 EXCEPT !.state = "CLOSED", !.opened_at = None,
                                   !.failure_count = 0]
                   ELSE IF ~success
                        THEN [s1 EXCEPT !.failure_count = @ + 1]
                        ELSE s1]

\* CircuitBreaker.reset: replaces the state record; action_history is not touched.
reset(cstate, service_name) ==
    [cstate EXCEPT ![service_name] = FreshCircuit]

-----------------------------------------------------------------------------
(* detectors.py *)

thresholds ==
    [error_rate |-> error_rate_threshold, cpu_percent |-> cpu_percent_threshold,
     response_time_ms |-> response_time_ms_threshold,
     ml_anomaly_severity |-> ml_anomaly_severity]

Incident(type, severity, value) ==
    [type |-> type, severity |-> severity, value |-> value]

\* HealthCheckDetector.detect
HealthCheckDetector(health_data) ==
    IF ~health_data.ok
    THEN <<Incident("health_check_failed", "CRITICAL", 0)>>
    ELSE <<>>

\* ErrorRateDetector.detect that also fires at the threshold (>= instead of >).
ErrorRateDetector_at_threshold(health_data, th) ==
    IF ~health_data.ok THEN <<>>
    ELSE IF health_data.error_rate >= th.error_rate
         THEN <<Incident("high_error_rate",
                         IF health_data.error_rate > th.error_rate * 3
                         THEN "CRITICAL" ELSE "WARNING",
                         health_data.error_rate)>>
         ELSE <<>>

\* ErrorRateDetector.detect
ErrorRateDetector(health_data, th) ==
    IF ~health_data.ok THEN <<>>
    ELSE IF health_data.error_rate > th.error_rate
         THEN <<Incident("high_error_rate",
                         IF health_data.error_rate > th.error_rate * 3
                         THEN "CRITICAL" ELSE "WARNING",
                         health_data.error_rate)>>
         ELSE <<>>

\* CPUSpikeDetector.detect without the test of the cpu_spike flag.
CPUSpikeDetector_no_flag(health_data, th) ==
    IF ~health_data.ok THEN <<>>
    ELSE IF health_data.cpu_usage_percent > th.cpu_percent
         THEN <<Incident("cpu_spike",
                         IF health_data.cpu_usage_percent * 10 > th.cpu_percent * 12
                         THEN "CRITICAL" ELSE "WARNING",
                         health_data.cpu_usage_percent)>>
         ELSE <<>>

\* CPUSpikeDetector.detect with CRITICAL from 1.2 x the threshold on (>=).
CPUSpikeDetector_critical_at_boundary(health_data, th) ==
    IF ~health_data.ok THEN <<>>
    ELSE IF health_data.cpu_usage_percent > th.cpu_percent \/ health_data.cpu_spike
         THEN <<Incident("cpu_spike",
                         IF health_data.cpu_usage_percent * 10 >= th.cpu_percent * 12
                         THEN "CRITICAL" ELSE "WARNING",
                         health_data.cpu_usage_percent)>>
         ELSE <<>>

\* CPUSpikeDetector.detect (cpu_percent > threshold * 1.2, in tenths; the
\* product threshold * 1.2 is exact in binary floating point whenever it is
\* a whole number, as for the thresholds used here)
CPUSpikeDetector(health_data, th) ==
    IF ~health_data.ok THEN <<>>
    ELSE IF health_data.cpu_usage_percent > th.cpu_percent \/ health_data.cpu_spike
         THEN <<Incident("cpu_spike",
                         IF health_data.cpu_usage_percent * 10 > th.cpu_percent * 12
                         THEN "CRITICAL" ELSE "WARNING",
                         health_data.cpu_usage_percent)>>
         ELSE <<>>

\* ResponseTimeDetector.detect (p95_ms = 0 is falsy, like None)
ResponseTimeDetector(health_data, th) ==
    IF ~health_data.ok THEN <<>>
    ELSE IF health_data.response_time_p95_ms # 0
            /\ health_data.response_time_p95_ms > th.response_time_ms
         THEN <<Incident("high_response_time",
                         IF health_data.response_time_p95_ms > th.response_time_ms * 2
                         THEN "CRITICAL" ELSE "WARNING",
                         health_data.response_time_p95_ms)>>
         ELSE <<>>

\* MLAnomalyDetector.detect
MLAnomalyDetector(health_data, th) ==
    IF ~health_data.ok THEN <<>>
    ELSE IF health_data.anomaly_severity # 0
            /\ health_data.anomaly_severity >= th.ml_anomaly_severity
         THEN <<Incident("ml_anomaly",
                         IF health_data.anomaly_severity >= ml_critical_severity
                         THEN "CRITICAL" ELSE "WARNING",
                         health_data.anomaly_severity)>>
         ELSE <<>>

\* DetectorManager.detect_all: the detectors in the order of self.detectors.
detect_all(health_data, th) ==
    HealthCheckDetector(health_data) \o ErrorRateDetector(health_data, th)
        \o CPUSpikeDetector(health_data, th) \o ResponseTimeDetector(health_data, th)
        \o MLAnomalyDetector(health_data, th)

\* The detectors whose detect can raise on a malformed value of the metric
\* they read; HealthCheckDetector only tests health_data against None.
RaisingDetectors == {"ErrorRateDetector", "CPUSpikeDetector",
                     "ResponseTimeDetector", "MLAnomalyDetector"}

\* One pass of the for loop of detect_all: the incident of a detector that
\* returned one, nothing for a detector that raised.
TryDetect(detector, raising, incident) ==
    IF detector \in raising THEN <<>> ELSE incident

\* detect_all without the try/except: the first detector that raises ends
\* the loop.
detect_all_raising_aborts(health_data, th, raising) ==
    HealthCheckDetector(health_data)
        \o (IF "ErrorRateDetector" \in raising THEN <<>>
            ELSE ErrorRateDetector(health_data, th)
        \o (IF "CPUSpikeDetector" \in raising THEN <<>>
            ELSE CPUSpikeDetector(health_data, th)
        \o (IF "ResponseTimeDetector" \in raising THEN <<>>
            ELSE ResponseTimeDetector(health_data, th)
        \o (IF "MLAnomalyDetector" \in raising THEN <<>>
            ELSE MLAnomalyDetector(health_data, th)))))

\* DetectorManager.detect_all when the detectors in raising raise.
detect_all_raising(health_data, th, raising) ==
    HealthCheckDetector(health_data)
        \o TryDetect("ErrorRateDetector", raising,
                     ErrorRateDetector(health_data, th))
        \o TryDetect("CPUSpikeDetector", raising,
                     CPUSpikeDetector(health_data, th))
        \o TryDetect("ResponseTimeDetector", raising,
                     ResponseTimeDetector(health_data, th))
        \o TryDetect("MLAnomalyDetector", raising,
                     MLAnomalyDetector(health_data, th))

-----------------------------------------------------------------------------
(* remediation.py *)

NoAction == [action_type |-> "none", target |-> "none"]

\* get_action_for_incident that restarts the app for unknown incident types.
get_action_for_incident_default_restart(incident) ==
    [action_type |-> "restart_container", target |-> "ar_app"]

\* RemediationStrategy.get_action_for_incident
get_action_for_incident(incident) ==
    IF incident.type \in {"health_check_failed", "high_error_rate", "cpu_spike",
                          "high_response_time"}
    THEN [action_type |-> "restart_container", target |-> "ar_app"]
    ELSE NoAction

\* RemediationExecutor.restart_container: success iff the container is found
\* and its status read back after the restart is 'running'.
restart_container(outcome) == outcome.status = "running"

-----------------------------------------------------------------------------
(* bot.py *)

\* should_deduplicate_incident measuring against the poll interval instead
\* of the dedup window.
should_deduplicate_incident_poll_window(last_time, current_time) ==
    current_time - last_time < poll_seconds

\* AutoRemediationBot.should_deduplicate_incident: the verdict on
\* last_incident_time.get(incident_type, 0) at current_time.
should_deduplicate_incident(last_time, current_time) ==
    current_time - last_time < incident_dedupe_window

\* No cleanup_old_records call was made yet.
NoCleanup == [status |-> "none", cutoff_date |-> None,
              result |-> [incidents |-> 0, remediation_actions |-> 0],
              incidents_before |-> <<>>, actions_before |-> <<>>,
              incidents_after |-> <<>>, actions_after |-> <<>>]

\* No call of the executor was made yet.
NoOp == [op |-> "none", container_name |-> "none", found |-> FALSE,
         before |-> "none",
         success |-> FALSE, error |-> "none", calls |-> <<>>, after |-> "none"]

\* No row 'thresholds' in table config.
NoConfig == [error_rate |-> None, cpu_percent |-> None,
             response_time_ms |-> None, ml_anomaly_severity |-> None]

\* No update_thresholds_from_db call was made yet.
NoRefresh == [iteration |-> None, read |-> "none", before |-> NoConfig]

\* No detect_all call was made yet.
NoDetect == [health_data |-> NoHealth, thresholds |-> thresholds,
             raising |-> {}, incidents |-> <<>>]

\* No exception reached the try of run yet.
NoException == [exception |-> "none", where |-> "none", iteration |-> 0]

\* No pass of handle_incidents sent a notification yet.
NoNotified == [n |-> 0, handlers |-> <<>>, events |-> <<>>, delivered |-> FALSE]

NoGate == [n |-> 0, target |-> "none", t |-> None, allowed |-> FALSE, reason |-> "none",
           before |-> "none", opened_at_before |-> None, mid |-> "none",
           success |-> FALSE, after |-> "none", incident_id |-> None, starts |-> 0,
           calls |-> <<>>]

Init ==
    /\ now = StartTime
    /\ circuit_state = [s \in Targets |-> FreshCircuit]
    /\ action_history = [k \in Targets \X ActionTypes |-> <<>>]
    /\ last_incident_time = [ty \in IncidentTypes |-> 0]
    /\ db_incidents = <<>>
    /\ db_actions = <<>>
    /\ pc = "poll"
    /\ health = NoHealth
    /\ pending = <<>>
    /\ handled = <<>>
    /\ passed = <<>>
    /\ started = <<>>
    /\ opened = <<>>
    /\ gate = NoGate
    /\ db_faults = 0
    /\ iteration = 0
    /\ last_call = <<>>
    /\ calls = 0
    /\ last_cleanup = NoCleanup
    /\ incident_seq = 0
    /\ containers = [c \in Containers |-> "running"]
    /\ last_op = NoOp
    /\ last_failure_check_time = None
    /\ last_predicted_time = [risk_level \in RiskLevels |-> 0]
    /\ detector_thresholds = thresholds
    /\ config_thresholds = NoConfig
    /\ last_refresh = NoRefresh
    /\ detected = NoDetect
    /\ last_cleanup_time = None
    /\ cleanup_log = <<>>
    /\ raised = NoException
    /\ notified = NoNotified

\* AutoRemediationBot.run, the statements of one iteration from get_health
\* to the call of handle_incidents: the fabricated health_check_failed
\* incident or detect_all with the thresholds th the detectors hold.
Probe(snapshots, max_iterations, th) ==
    /\ pc = "poll"
    /\ iteration < max_iterations
    /\ iteration' = iteration + 1
    /\ \E h \in snapshots :
          LET incidents == IF ~h.ok
                           THEN <<Incident("health_check_failed", "CRITICAL", 0)>>
                           ELSE detect_all(h, th)
          IN  /\ health' = h
              /\ pending' = incidents
    /\ pc' = "handle"
    /\ handled' = <<>>

\* AutoRemediationBot.run, one iteration up to the call of handle_incidents
\* when no threshold refresh is due and the failure predictor is not loaded.
PollFrom(snapshots, max_iterations) ==
    /\ Probe(snapshots, max_iterations, detector_thresholds)
    /\ UNCHANGED <<sideVars, now, breakerVars, last_incident_time, db_incidents, db_actions,
                   passed, started, opened, gate, db_faults, clientVars,
                   cleanupVars, actuatorVars>>

Poll == PollFrom(Snapshots \cup {NoHealth}, MaxIterations)

\* BotDB.log_incident: the row inserted with status ACTIVE.
IncidentRow(id, incident, t) ==
    [id |-> id, type |-> incident.type, severity |-> incident.severity,
     status |-> "ACTIVE", timestamp |-> t, resolved_at |-> None,
     resolution_time_seconds |-> None]

\* log_remediation_action that inserts a failed action a second time (a retry).
log_remediation_action_retry(rows, incident_id, action, success, t) ==
    LET row == [incident_id |-> incident_id, action_type |-> action.action_type,
                target |-> action.target, success |-> success, timestamp |-> t]
    IN  IF success THEN Append(rows, row) ELSE Append(Append(rows, row), row)

\* BotDB.log_remediation_action: the rows after the insert.
log_remediation_action(rows, incident_id, action, success, t) ==
    Append(rows, [incident_id |-> incident_id, action_type |-> action.action_type,
                  target |-> action.target, success |-> success, timestamp |-> t])

\* BotDB.update_incident_resolved at time t: UPDATE incidents SET status =
\* 'RESOLVED', resolved_at = NOW(), resolution_time_seconds = NOW() - timestamp
\* WHERE id = ...
update_incident_resolved(rows, incident_id, t) ==
    [i \in DOMAIN rows |->
        IF rows[i].id = incident_id
        THEN [rows[i] EXCEPT !.status = "RESOLVED", !.resolved_at = t,
                             !.resolution_time_seconds = t - rows[i].timestamp]
        ELSE rows[i]]

\* handle_incidents, after the deduplicator let the incident through:
\* notify, then log_incident (db_ok: the insert succeeds and yields an id).
\* Yields the id and the rows of table incidents.
LogIncident(incident, db_ok) ==
    IF db_ok
    THEN [incident_id |-> Len(db_incidents) + 1,
          rows |-> Append(db_incidents,
                          IncidentRow(Len(db_incidents) + 1, incident, now))]
    ELSE [incident_id |-> None, rows |-> db_incidents]

Emitted(incident, logged, faults) ==
    /\ db_faults + faults <= MaxDbFaults
    /\ db_faults' = db_faults + faults
    /\ last_incident_time' = [last_incident_time EXCEPT ![incident.type] = now]
    /\ passed' = Append(passed, [type |-> incident.type,
                                  severity |-> incident.severity, t |-> now])
    /\ handled' = Append(handled, [type |-> incident.type,
                                    severity |-> incident.severity,
                                    t |-> now, dup |-> FALSE])

\* handle_incidents recording the attempt before it executes the action.
handle_incidents_calls_record_first(allowed, incident_id, success) ==
    <<"can_execute">>
        \o (IF allowed THEN <<"record_action", "execute_action">> ELSE <<>>)
        \o (IF allowed /\ incident_id # None
            THEN <<"log_remediation_action">> ELSE <<>>)
        \o (IF allowed /\ incident_id # None /\ success
            THEN <<"update_incident_resolved">> ELSE <<>>)

\* handle_incidents, the calls of one pass of the for loop from the circuit
\* breaker on, in the order the statements make them.
handle_incidents_calls(allowed, incident_id, success) ==
    <<"can_execute">>
        \o (IF allowed THEN <<"execute_action", "record_action">> ELSE <<>>)
        \o (IF allowed /\ incident_id # None
            THEN <<"log_remediation_action">> ELSE <<>>)
        \o (IF allowed /\ incident_id # None /\ success
            THEN <<"update_incident_resolved">> ELSE <<>>)

Gated(action, incident_id, g, success, after) ==
    [n |-> gate.n + 1, target |-> action.target, t |-> now,
     allowed |-> g.allowed, reason |-> g.reason,
     before |-> circuit_state[action.target].state,
     opened_at_before |-> circuit_state[action.target].opened_at,
     mid |-> g.state.state, success |-> success, after |-> after,
     incident_id |-> incident_id, starts |-> Len(started),
     calls |-> handle_incidents_calls(g.allowed, incident_id, success)]

\* should_deduplicate_incident returned True: continue.
Deduplicated(incident) ==
    /\ handled' = Append(handled, [type |-> incident.type,
                                    severity |-> incident.severity,
                                    t |-> now, dup |-> TRUE])
    /\ UNCHANGED <<now, breakerVars, last_incident_time, db_incidents, db_actions,
                   passed, started, opened, gate, db_faults>>

\* get_action_for_incident returned None: continue.
NotRemediated(incident, logged, faults) ==
    /\ Emitted(incident, logged, faults)
    /\ db_incidents' = logged.rows
    /\ UNCHANGED <<now, breakerVars, db_actions, started, opened, gate>>

\* can_execute returned False: notify the open circuit and the escalation, continue.
Blocked(incident, logged, faults, action, g) ==
    /\ Emitted(incident, logged, faults)
    /\ db_incidents' = logged.rows
    /\ circuit_state' = [circuit_state EXCEPT ![action.target] = g.state]
    /\ action_history' =
           [action_history EXCEPT ![<<action.target, action.action_type>>] =
                                      g.action_times]
    /\ opened' = IF g.reason = "window"
                 THEN Append(opened, [target |-> action.target, t |-> now,
                                      starts |-> Len(started)])
                 ELSE opened
    /\ gate' = Gated(action, logged.incident_id, g, FALSE, g.state.state)
    /\ UNCHANGED <<now, db_actions, started>>

\* can_execute returned True: execute_action, record_action, then
\* log_remediation_action and update_incident_resolved when there is an
\* incident id (log_ok, resolve_ok: the statement succeeds).
Executed(incident, logged, faults, action, g, success, done, r, log_ok, resolve_ok) ==
    /\ done <= MaxTime
    /\ Emitted(incident, logged, faults)
    /\ started' = Append(started, [target |-> action.target,
                                    action_type |-> action.action_type,
                                    t |-> now, done |-> done, success |-> success])
    /\ now' = done
    /\ circuit_state' = [circuit_state EXCEPT ![action.target] = r.state]
    /\ action_history' =
           [action_history EXCEPT ![<<action.target, action.action_type>>] =
                                      r.action_times]
    /\ gate' = Gated(action, logged.incident_id, g, success, r.state.state)
    /\ db_actions' =
           IF logged.incident_id # None /\ log_ok
           THEN log_remediation_action(db_actions, logged.incident_id, action,
                                       success, done)
           ELSE db_actions
    /\ db_incidents' =
           IF logged.incident_id # None /\ success /\ resolve_ok
           THEN update_incident_resolved(logged.rows, logged.incident_id, done)
           ELSE logged.rows
    /\ UNCHANGED opened

Fault(ok) == IF ok THEN 0 ELSE 1

\* The statements that run after execute_action, for each outcome of the
\* container runtime and of the two database statements that follow.
Execute(incident, logged, faults, action, g) ==
    \E outcome \in ExecOutcomes :
       LET success == restart_container(outcome)
           done == now + outcome.seconds
       IN  \E log_ok \in (IF logged.incident_id # None THEN BOOLEAN ELSE {TRUE}),
              resolve_ok \in (IF logged.incident_id # None /\ success
                              THEN BOOLEAN ELSE {TRUE}) :
              Executed(incident, logged, faults + Fault(log_ok) + Fault(resolve_ok),
                       action, g, success, done,
                       record_action(g.state, g.action_times, done, success),
                       log_ok, resolve_ok)

\* The body of the for loop of handle_incidents for one incident that passed
\* the deduplicator.
Remediate(incident, logged, faults, action) ==
    IF action = NoAction
    THEN NotRemediated(incident, logged, faults)
    ELSE LET g == can_execute(circuit_state[action.target],
                              action_history[<<action.target, action.action_type>>],
                              now)
         IN  IF ~g.allowed
             THEN Blocked(incident, logged, faults, action, g)
             ELSE Execute(incident, logged, faults, action, g)

\* AutoRemediationBot.handle_incidents, the statements of one pass of its
\* for loop other than the notify calls.
HandlePass ==
    /\ pc = "handle"
    /\ pending # <<>>
    /\ pending' = Tail(pending)
    /\ LET incident == Head(pending)
       IN  IF should_deduplicate_incident(last_incident_time[incident.type], now)
           THEN Deduplicated(incident)
           ELSE \E db_ok \in BOOLEAN :
                   Remediate(incident, LogIncident(incident, db_ok), Fault(db_ok),
                             get_action_for_incident(incident))
    /\ UNCHANGED <<predictVars, configVars, detectVars, pc, health, iteration,
                   clientVars, cleanupVars, actuatorVars, last_cleanup_time,
                   cleanup_log, raised>>

\* AutoRemediationBot.handle_incidents, one pass of its for loop, with every
\* notification delivered.
HandleIncident ==
    /\ HandlePass
    /\ UNCHANGED notified

\* AutoRemediationBot.run: time.sleep(poll_seconds) at the end of the iteration.
SleepFor(times, max_iterations) ==
    /\ pc = "handle"
    /\ pending = <<>>
    /\ iteration < max_iterations
    /\ \E d \in times :
          /\ now + d <= MaxTime
          /\ now' = now + d
    /\ pc' = "poll"
    /\ health' = NoHealth
    /\ handled' = <<>>
    /\ UNCHANGED <<sideVars, breakerVars, last_incident_time, db_incidents, db_actions,
                   pending, passed, started, opened, gate, db_faults, iteration,
                   clientVars, cleanupVars, actuatorVars>>

Sleep == SleepFor(SleepTimes, MaxIterations)

Next == Poll \/ HandleIncident \/ Sleep

Spec == Init /\ [][Next]_vars

-----------------------------------------------------------------------------
(* The monitor loop fed a run of ticks that all observe an error rate of    *)
(* 0.5 with every other metric healthy, 10 s or a dedup window apart.       *)

TripSnapshots == {Snapshot(500, 50, 0, FALSE, 0)}

TripSleeps == {10, incident_dedupe_window}

PollTrip == PollFrom(TripSnapshots, MaxTicks)

SleepTrip == SleepFor(TripSleeps, MaxTicks)

NextTrip == PollTrip \/ HandleIncident \/ SleepTrip

SpecTrip == Init /\ [][NextTrip]_vars

-----------------------------------------------------------------------------
(* The monitor loop fed a run of ticks in which the probe fails every time, *)
(* a poll interval or a dedup window apart.                                 *)

ProbeSleeps == {poll_seconds, incident_dedupe_window}

PollProbe == PollFrom({NoHealth}, MaxTicks)

SleepProbe == SleepFor(ProbeSleeps, MaxTicks)

NextProbe == PollProbe \/ HandleIncident \/ SleepProbe

SpecProbe == Init /\ [][NextProbe]_vars

-----------------------------------------------------------------------------
(* The monitor loop with the thresholds kept in table config: an operator   *)
(* changes the row between iterations, the loop reads it at startup and on  *)
(* every 10th iteration.                                                    *)

\* The values an operator gives the row: the cpu threshold at 80 or at 95.
ConfigValues == {thresholds, [thresholds EXCEPT !.cpu_percent = 95]}

\* How a read of the row goes: it returns, the query raises, or no session
\* can be opened.
ReadOutcomes == {"ok", "query_failed", "no_session"}

\* BotDB.get_thresholds: the value of the row, or the defaults when there is
\* no row or the query raises.
get_thresholds(config, read) ==
    IF read = "ok" /\ config # NoConfig THEN config ELSE thresholds

\* AutoRemediationBot.update_thresholds_from_db: the thresholds the bot and
\* the detectors hold after the call.
update_thresholds_from_db(current, config, read) ==
    IF read = "no_session" THEN current ELSE get_thresholds(config, read)

\* run with the periodic refresh one iteration late.
refresh_due_late(i) == i = 1 \/ i % refresh_interval = 1

\* run: the refresh before the loop (taken with the first iteration) and
\* the one of every 10th iteration (if iteration % 10 == 0).
refresh_due(i) == i = 1 \/ i % refresh_interval = 0

ConfigSnapshots == {Snapshot(100, 50, 0, FALSE, 0), Snapshot(100, 90, 0, FALSE, 0)}

\* An operator commits a new value of the row while the loop sleeps.
ConfigUpdate ==
    /\ pc = "poll"
    /\ \E config \in ConfigValues :
          /\ config # config_thresholds
          /\ config_thresholds' = config
    /\ UNCHANGED <<now, breakerVars, botVars, db_faults, iteration, clientVars,
                   cleanupVars, actuatorVars, predictVars, detector_thresholds,
                   last_refresh, detectVars, loopVars>>

\* AutoRemediationBot.run, one iteration up to the call of handle_incidents:
\* the refresh of the thresholds when it is due, then the probe and the
\* detectors with the thresholds they then hold.
PollConfig ==
    /\ \E read \in (IF refresh_due(iteration + 1) THEN ReadOutcomes ELSE {"none"}) :
          LET th == IF refresh_due(iteration + 1)
                    THEN update_thresholds_from_db(detector_thresholds,
                                                   config_thresholds, read)
                    ELSE detector_thresholds
          IN  /\ Probe(ConfigSnapshots, MaxConfigIterations, th)
              /\ detector_thresholds' = th
              /\ last_refresh' = IF refresh_due(iteration + 1)
                                 THEN [iteration |-> iteration + 1, read |-> read,
                                       before |-> detector_thresholds]
                                 ELSE last_refresh
    /\ UNCHANGED <<now, breakerVars, last_incident_time, db_incidents, db_actions,
                   passed, started, opened, gate, db_faults, clientVars,
                   cleanupVars, actuatorVars, predictVars, config_thresholds,
                   detectVars, loopVars>>

SleepConfig == SleepFor({poll_seconds}, MaxConfigIterations)

NextConfig == ConfigUpdate \/ PollConfig \/ HandleIncident \/ SleepConfig

SpecConfig == Init /\ [][NextConfig]_vars

-----------------------------------------------------------------------------
(* The monitor loop with the failure predictor loaded: every iteration      *)
(* calls _check_failure_prediction before the probe.                        *)

\* What FailurePredictor.predict returns: its status and risk level.
Predictions ==
    {[status |-> "error", risk_level |-> "low"],
     [status |-> "success", risk_level |-> "low"],
     [status |-> "success", risk_level |-> "medium"],
     [status |-> "success", risk_level |-> "high"]}

\* AutoRemediationBot._check_failure_prediction at current_time, with the
\* prediction the predictor returns and db_ok telling whether the insert of
\* log_incident succeeds.  Yields the two timestamps and the rows of
\* table incidents.
_check_failure_prediction(last_check, last_alert, rows, current_time, prediction, db_ok) ==
    IF last_check # None /\ current_time - last_check < failure_check_interval
    THEN [last_failure_check_time |-> last_check,
          last_predicted_time |-> last_alert, rows |-> rows]
    ELSE IF prediction.status # "success"
            \/ prediction.risk_level \notin RiskLevels
    THEN [last_failure_check_time |-> current_time,
          last_predicted_time |-> last_alert, rows |-> rows]
    ELSE IF last_alert[prediction.risk_level] # 0
            /\ current_time - last_alert[prediction.risk_level]
                  < predicted_alert_window
    THEN [last_failure_check_time |-> current_time,
          last_predicted_time |-> last_alert, rows |-> rows]
    ELSE [last_failure_check_time |-> current_time,
          last_predicted_time |->
              [last_alert EXCEPT ![prediction.risk_level] = current_time],
          rows |->
              IF db_ok
              THEN Append(rows,
                          IncidentRow(Len(rows) + 1,
                                      Incident("predicted_failure",
                                               IF prediction.risk_level = "high"
                                               THEN "HIGH" ELSE "MEDIUM", 0),
                                      current_time))
              ELSE rows]

PredictSnapshots == {Snapshot(100, 50, 0, FALSE, 0), NoHealth}

PredictSleeps == {poll_seconds, failure_check_interval}

\* AutoRemediationBot.run, one iteration up to the call of handle_incidents:
\* _check_failure_prediction, then the probe and the detectors.
PollPredict ==
    /\ Probe(PredictSnapshots, MaxIterations, detector_thresholds)
    /\ \E prediction \in Predictions, db_ok \in BOOLEAN :
          LET c == _check_failure_prediction(last_failure_check_time,
                                             last_predicted_time, db_incidents,
                                             now, prediction, db_ok)
          IN  /\ last_failure_check_time' = c.last_failure_check_time
              /\ last_predicted_time' = c.last_predicted_time
              /\ db_incidents' = c.rows
    /\ UNCHANGED <<now, breakerVars, last_incident_time, db_actions, passed,
                   started, opened, gate, db_faults, clientVars, cleanupVars,
                   actuatorVars, configVars, detectVars, loopVars>>

SleepPredict == SleepFor(PredictSleeps, MaxIterations)

NextPredict == PollPredict \/ HandleIncident \/ SleepPredict

SpecPredict == Init /\ [][NextPredict]_vars

-----------------------------------------------------------------------------
(* The detector chain called directly: update_thresholds and detect_all on  *)
(* health data around the boundaries of every detector.                     *)

DetectThresholds ==
    {thresholds,
     [error_rate |-> 100, cpu_percent |-> 75, response_time_ms |-> 250,
      ml_anomaly_severity |-> 70]}

\* Error rates and cpu usages at and next to the boundaries of both
\* thresholds; the other inputs are all quiet, or the cpu_spike flag is set,
\* or the response time and the anomaly are above their CRITICAL boundary.
DetectSnapshots ==
    {Snapshot(error_rate, cpu, rest[1], rest[2], rest[3]) :
        error_rate \in {100, 200, 201, 300, 301, 600, 601},
        cpu \in {80, 90, 91, 96, 97},
        rest \in {<<0, FALSE, 0>>, <<0, TRUE, 0>>, <<1001, FALSE, 85>>}}

\* DetectorManager.update_thresholds
UpdateThresholds ==
    /\ \E th \in DetectThresholds :
          /\ th # detector_thresholds
          /\ detector_thresholds' = th
    /\ UNCHANGED <<now, breakerVars, botVars, db_faults, iteration, clientVars,
                   cleanupVars, actuatorVars, predictVars, config_thresholds,
                   last_refresh, detectVars, loopVars>>

\* DetectorManager.detect_all
DetectAll ==
    /\ \E health_data \in DetectSnapshots \cup {NoHealth},
          raising \in SUBSET RaisingDetectors :
          detected' = [health_data |-> health_data,
                       thresholds |-> detector_thresholds,
                       raising |-> raising,
                       incidents |-> detect_all_raising(health_data,
                                                        detector_thresholds,
                                                        raising)]
    /\ UNCHANGED <<now, breakerVars, botVars, db_faults, iteration, clientVars,
                   cleanupVars, actuatorVars, predictVars, configVars, loopVars>>

NextDetect == UpdateThresholds \/ DetectAll

SpecDetect == Init /\ [][NextDetect]_vars

-----------------------------------------------------------------------------
(* cleanup.py: the retention sweep over the tables incidents and            *)
(* remediation_actions, with rows inserted as BotDB inserts them and time   *)
(* passing in seconds and in retention periods.                             *)

\* timedelta(days=self.retention_days), in seconds
RetentionSeconds == retention_days * SecondsPerDay

MaxCleanupTime == StartTime + MaxRetentionPeriods * RetentionSeconds + MaxRows

Older(rows, cutoff_date) == SelectSeq(rows, LAMBDA r : r.timestamp < cutoff_date)

NotOlder(rows, cutoff_date) == SelectSeq(rows, LAMBDA r : r.timestamp >= cutoff_date)

\* DataCleanup.cleanup_old_records, the statements up to the commit: the
\* counts, the DELETE on incidents with the ON DELETE CASCADE of
\* remediation_actions.incident_id, then the DELETE on remediation_actions;
\* the counts returned are the rowcounts of the two DELETE statements.
cleanup_old_records(incidents, actions, current_time) ==
    LET cutoff_date == current_time - RetentionSeconds
        old_incidents == Len(Older(incidents, cutoff_date))
        old_remediations == Len(Older(actions, cutoff_date))
    IN  IF old_incidents = 0 /\ old_remediations = 0
        THEN [cutoff_date |-> cutoff_date,
              result |-> [incidents |-> 0, remediation_actions |-> 0],
              incidents |-> incidents, actions |-> actions]
        ELSE LET deleted_ids == {incidents[i].id : i \in
                                    {j \in DOMAIN incidents :
                                        incidents[j].timestamp < cutoff_date}}
                 incidents1 == NotOlder(incidents, cutoff_date)
                 cascaded == SelectSeq(actions,
                                       LAMBDA r : r.incident_id \notin deleted_ids)
                 actions1 == NotOlder(cascaded, cutoff_date)
             IN  [cutoff_date |-> cutoff_date,
                  result |-> [incidents |-> Len(incidents) - Len(incidents1),
                              remediation_actions |-> Len(cascaded) - Len(actions1)],
                  incidents |-> incidents1, actions |-> actions1]

\* BotDB.log_incident on the tables the sweep works on.
CleanupLogIncident ==
    /\ Len(db_incidents) < MaxRows
    /\ incident_seq' = incident_seq + 1
    /\ db_incidents' =
           Append(db_incidents,
                  IncidentRow(incident_seq + 1,
                              Incident("high_error_rate", "WARNING", 500), now))
    /\ UNCHANGED <<sideVars, now, breakerVars, last_incident_time, db_actions, pc, health,
                   pending, handled, passed, started, opened, gate, db_faults,
                   iteration, clientVars, last_cleanup, actuatorVars>>

\* BotDB.log_remediation_action for an incident of the table.
CleanupLogAction ==
    /\ Len(db_actions) < MaxRows
    /\ \E i \in DOMAIN db_incidents, success \in BOOLEAN :
          db_actions' =
              log_remediation_action(db_actions, db_incidents[i].id,
                                     [action_type |-> "restart_container",
                                      target |-> "ar_app"], success, now)
    /\ UNCHANGED <<sideVars, now, breakerVars, last_incident_time, db_incidents, pc, health,
                   pending, handled, passed, started, opened, gate, db_faults,
                   iteration, clientVars, cleanupVars, actuatorVars>>

\* Time passing between two statements: a second, or a retention period.
\* The clock stays within MaxRows seconds of a whole number of periods.
CleanupWaits == {1, RetentionSeconds}

CleanupWait ==
    /\ \E d \in CleanupWaits :
          /\ now + d <= MaxCleanupTime
          /\ (now + d - StartTime) % RetentionSeconds <= MaxRows
          /\ now' = now + d
    /\ UNCHANGED <<sideVars, breakerVars, botVars, db_faults, iteration, clientVars,
                   cleanupVars, actuatorVars>>

\* DataCleanup.cleanup_old_records: committed (ok), or a statement raised
\* and the transaction was rolled back.
CleanupOldRecords ==
    /\ \E ok \in BOOLEAN :
          LET c == cleanup_old_records(db_incidents, db_actions, now)
          IN  /\ db_incidents' = IF ok THEN c.incidents ELSE db_incidents
              /\ db_actions' = IF ok THEN c.actions ELSE db_actions
              /\ last_cleanup' =
                     [status |-> IF ok THEN "done" ELSE "raised",
                      cutoff_date |-> c.cutoff_date,
                      result |-> IF ok THEN c.result
                                 ELSE [incidents |-> 0, remediation_actions |-> 0],
                      incidents_before |-> db_incidents,
                      actions_before |-> db_actions,
                      incidents_after |-> IF ok THEN c.incidents ELSE db_incidents,
                      actions_after |-> IF ok THEN c.actions ELSE db_actions]
    /\ UNCHANGED <<sideVars, now, breakerVars, last_incident_time, pc, health, pending,
                   handled, passed, started, opened, gate, db_faults, iteration,
                   clientVars, incident_seq, actuatorVars>>

NextCleanup ==
    CleanupLogIncident \/ CleanupLogAction \/ CleanupWait \/ CleanupOldRecords

SpecCleanup == Init /\ [][NextCleanup]_vars

-----------------------------------------------------------------------------
(* BotDB.update_incident_resolved called on the rows of table incidents,    *)
(* any number of times per incident, while time passes.                     *)

ResolveIncident ==
    /\ \E i \in DOMAIN db_incidents :
          db_incidents' = update_incident_resolved(db_incidents,
                                                   db_incidents[i].id, now)
    /\ UNCHANGED <<sideVars, now, breakerVars, last_incident_time, db_actions, pc,
                   health, pending, handled, passed, started, opened, gate,
                   db_faults, iteration, clientVars, cleanupVars, actuatorVars>>

NextResolve == CleanupLogIncident \/ CleanupWait \/ ResolveIncident

SpecResolve == Init /\ [][NextResolve]_vars

-----------------------------------------------------------------------------
(* The monitor loop with the exceptions that reach the try of run: the one  *)
(* that leaves run_cleanup_if_needed and the one that leaves                *)
(* handle_incidents when no database session can be opened.                 *)

\* run_cleanup_if_needed: should_cleanup
should_cleanup(last, current_time) ==
    last = None \/ current_time - last >= cleanup_interval_hours * SecondsPerHour

\* AutoRemediationBot.run_cleanup_if_needed at current_time; ok tells whether
\* get_database_stats and cleanup_old_records return, result is what
\* cleanup_old_records returns.  NotificationManager has no attribute
\* send_notification, so both calls of it raise AttributeError: the one in
\* the try block is caught by the except clause, the one in the except
\* clause leaves the method.
run_cleanup_if_needed(last, current_time, ok, result) ==
    IF ~should_cleanup(last, current_time)
    THEN [ran |-> FALSE, status |-> "none", last_cleanup_time |-> last,
          exception |-> "none"]
    ELSE IF ok /\ result.incidents = 0 /\ result.remediation_actions = 0
    THEN [ran |-> TRUE, status |-> "done", last_cleanup_time |-> current_time,
          exception |-> "none"]
    ELSE [ran |-> TRUE, status |-> IF ok THEN "done" ELSE "raised",
          last_cleanup_time |-> last, exception |-> "AttributeError"]

\* The cleanup run of the iteration, as cleanup_log keeps it.
CleanupRun(u) ==
    IF u.ran
    THEN Append(cleanup_log, [iteration |-> iteration + 1, t |-> now,
                              status |-> u.status])
    ELSE cleanup_log

\* AutoRemediationBot.run, one iteration up to the call of handle_incidents
\* in which no exception leaves run_cleanup_if_needed.
PollCleanup(snapshots, max_iterations) ==
    /\ \E ok \in BOOLEAN :
          LET c == cleanup_old_records(db_incidents, db_actions, now)
              u == run_cleanup_if_needed(last_cleanup_time, now, ok, c.result)
          IN  /\ u.exception = "none"
              /\ Probe(snapshots, max_iterations, detector_thresholds)
              /\ last_cleanup_time' = u.last_cleanup_time
              /\ cleanup_log' = CleanupRun(u)
              /\ db_incidents' = IF u.ran /\ ok THEN c.incidents ELSE db_incidents
              /\ db_actions' = IF u.ran /\ ok THEN c.actions ELSE db_actions
    /\ UNCHANGED <<now, breakerVars, last_incident_time, passed, started, opened,
                   gate, db_faults, clientVars, cleanupVars, actuatorVars,
                   predictVars, configVars, detectVars, raised, notified>>

\* AutoRemediationBot.run, an iteration that ends in run_cleanup_if_needed:
\* the exception reaches the try of run before the probe.  (An iteration
\* follows within the bounds of the model.)
CleanupRaises(max_iterations) ==
    /\ pc = "poll"
    /\ iteration + 1 < max_iterations
    /\ now + poll_seconds <= MaxTime
    /\ iteration' = iteration + 1
    /\ \E ok \in BOOLEAN :
          LET c == cleanup_old_records(db_incidents, db_actions, now)
              u == run_cleanup_if_needed(last_cleanup_time, now, ok, c.result)
          IN  /\ u.exception # "none"
              /\ last_cleanup_time' = u.last_cleanup_time
              /\ cleanup_log' = CleanupRun(u)
              /\ db_incidents' = IF ok THEN c.incidents ELSE db_incidents
              /\ db_actions' = IF ok THEN c.actions ELSE db_actions
              /\ raised' = [exception |-> u.exception,
                            where |-> "run_cleanup_if_needed",
                            iteration |-> iteration + 1]
    /\ pc' = "except"
    /\ UNCHANGED <<now, breakerVars, last_incident_time, health, pending, handled,
                   passed, started, opened, gate, db_faults, clientVars,
                   cleanupVars, actuatorVars, predictVars, configVars, detectVars,
                   notified>>

\* AutoRemediationBot.handle_incidents left by an exception of
\* self.db.get_session() before log_incident: the deduplicator has let the
\* incident through and noted its time, the remaining incidents of the
\* iteration are not handled.
RaisedBeforeLog(max_iterations) ==
    /\ pc = "handle"
    /\ pending # <<>>
    /\ iteration < max_iterations
    /\ now + poll_seconds <= MaxTime
    /\ ~should_deduplicate_incident(last_incident_time[Head(pending).type], now)
    /\ Emitted(Head(pending), LogIncident(Head(pending), FALSE), 1)
    /\ pending' = <<>>
    /\ raised' = [exception |-> "Exception", where |-> "handle_incidents",
                  iteration |-> iteration]
    /\ pc' = "except"
    /\ UNCHANGED <<now, breakerVars, db_incidents, db_actions, started, opened,
                   gate, health, iteration, clientVars, cleanupVars, actuatorVars,
                   predictVars, configVars, detectVars, last_cleanup_time,
                   cleanup_log, notified>>

\* run with an except Exception clause that ends the loop.
run_except_breaks(exception) == "break"

\* AutoRemediationBot.run, the except clauses of the try: break on
\* KeyboardInterrupt, log and time.sleep(poll_seconds) on any other
\* exception.
run_except(exception) ==
    IF exception = "KeyboardInterrupt" THEN "break" ELSE "sleep"

\* AutoRemediationBot.run: the except clause that the exception selects.
Except ==
    /\ pc = "except"
    /\ pc' = IF run_except(raised.exception) = "break" THEN "stopped" ELSE "poll"
    /\ now' = IF run_except(raised.exception) = "break" THEN now
              ELSE now + poll_seconds
    /\ health' = NoHealth
    /\ handled' = <<>>
    /\ UNCHANGED <<sideVars, breakerVars, last_incident_time, db_incidents,
                   db_actions, pending, passed, started, opened, gate, db_faults,
                   iteration, clientVars, cleanupVars, actuatorVars>>

FaultSnapshots == {Snapshot(100, 50, 0, FALSE, 0), Snapshot(500, 50, 0, FALSE, 0),
                   Snapshot(700, 97, 1200, FALSE, 0), NoHealth}

FaultSleeps == {poll_seconds, incident_dedupe_window}

PollFaults == PollCleanup(FaultSnapshots, MaxIterations)

CleanupFaults == CleanupRaises(MaxIterations)

HandleFaults == RaisedBeforeLog(MaxIterations)

SleepFaults == SleepFor(FaultSleeps, MaxIterations)

NextFaults ==
    \/ PollFaults
    \/ CleanupFaults
    \/ HandleIncident
    \/ HandleFaults
    \/ Except
    \/ SleepFaults

SpecFaults == Init /\ [][NextFaults]_vars

\* The loop runs in a thread of its own that nothing suspends.
FairSpecFaults == SpecFaults /\ WF_vars(NextFaults)

-----------------------------------------------------------------------------
(* The monitor loop stopped by an interrupt.  The process installs no       *)
(* signal handler: SIGINT raises KeyboardInterrupt in the main thread at    *)
(* the statement it is executing, which no 'except Exception' clause on the *)
(* way catches, and the except KeyboardInterrupt clause of run breaks.      *)

\* handle_incidents, a pass that executes the action and is left by
\* KeyboardInterrupt after the first k of its calls returned
\* (can_execute, execute_action, record_action, log_remediation_action,
\* update_incident_resolved), the database working.
InterruptedAfter(incident, logged, action, g, success, done, k) ==
    LET r == IF k >= 3 THEN record_action(g.state, g.action_times, done, success)
             ELSE [state |-> g.state, action_times |-> g.action_times]
    IN  /\ done <= MaxTime
        /\ Emitted(incident, logged, 0)
        /\ started' = Append(started, [target |-> action.target,
                                        action_type |-> action.action_type,
                                        t |-> now, done |-> done,
                                        success |-> success])
        /\ now' = done
        /\ circuit_state' = [circuit_state EXCEPT ![action.target] = r.state]
        /\ action_history' =
               [action_history EXCEPT ![<<action.target, action.action_type>>] =
                                          r.action_times]
        /\ gate' = [Gated(action, logged.incident_id, g, success, r.state.state)
                       EXCEPT !.calls = SubSeq(@, 1, k)]
        /\ db_actions' =
               IF k >= 4
               THEN log_remediation_action(db_actions, logged.incident_id, action,
                                           success, done)
               ELSE db_actions
        /\ db_incidents' = logged.rows
        /\ raised' = [exception |-> "KeyboardInterrupt",
                      where |-> handle_incidents_calls(TRUE, logged.incident_id,
                                                       success)[k],
                      iteration |-> iteration]
        /\ UNCHANGED opened

\* AutoRemediationBot.run interrupted inside handle_incidents, between
\* execute_action and the end of the pass.
InterruptPass ==
    /\ pc = "handle"
    /\ pending # <<>>
    /\ pending' = Tail(pending)
    /\ pc' = "except"
    /\ LET incident == Head(pending)
           action == get_action_for_incident(incident)
       IN  /\ ~should_deduplicate_incident(last_incident_time[incident.type], now)
           /\ action # NoAction
           /\ LET g == can_execute(circuit_state[action.target],
                                   action_history[<<action.target,
                                                    action.action_type>>],
                                   now)
                  logged == LogIncident(incident, TRUE)
              IN  /\ g.allowed
                  /\ \E outcome \in ExecOutcomes :
                        LET success == restart_container(outcome)
                            full == handle_incidents_calls(TRUE, logged.incident_id,
                                                           success)
                        IN  \E k \in 2..(Len(full) - 1) :
                               InterruptedAfter(incident, logged, action, g, success,
                                                now + outcome.seconds, k)
    /\ UNCHANGED <<predictVars, configVars, detectVars, health, iteration,
                   clientVars, cleanupVars, actuatorVars, last_cleanup_time,
                   cleanup_log, notified>>

\* AutoRemediationBot.run interrupted in time.sleep(poll_seconds), all the
\* incidents of the iteration handled.
InterruptSleep ==
    /\ pc = "handle"
    /\ pending = <<>>
    /\ pc' = "except"
    /\ raised' = [exception |-> "KeyboardInterrupt", where |-> "sleep",
                  iteration |-> iteration]
    /\ UNCHANGED <<now, breakerVars, last_incident_time, db_incidents, db_actions,
                   health, pending, handled, passed, started, opened, gate,
                   db_faults, iteration, clientVars, cleanupVars, actuatorVars,
                   predictVars, configVars, detectVars, last_cleanup_time,
                   cleanup_log, notified>>

ShutdownSnapshots == {Snapshot(100, 50, 0, FALSE, 0), Snapshot(500, 50, 0, FALSE, 0),
                      NoHealth}

ShutdownSleeps == {poll_seconds, incident_dedupe_window}

PollShutdown == PollFrom(ShutdownSnapshots, MaxIterations)

SleepShutdown == SleepFor(ShutdownSleeps, MaxIterations)

NextShutdown ==
    \/ PollShutdown
    \/ HandleIncident
    \/ SleepShutdown
    \/ InterruptPass
    \/ InterruptSleep
    \/ Except

SpecShutdown == Init /\ [][NextShutdown]_vars

-----------------------------------------------------------------------------
(* notifications.py and the monitor loop with its notifications: every      *)
(* pass of handle_incidents sends its notifications through handlers whose  *)
(* send returns True, returns False or raises.                              *)

\* What handler.send does: returns True, returns False, raises.
SendOutcomes == {"sent", "failed", "raised"}

HandlerNames == {"console", "slack"}

\* NotificationManager.__init__ as the bot calls it (enable_console=True):
\* the console handler, and the Slack handler when a webhook is configured.
HandlerLists == {<<"console">>, <<"console", "slack">>}

RECURSIVE success_count(_, _)
\* NotificationManager.notify, the for loop: the handlers whose send
\* returned True.
success_count(handlers, outcomes) ==
    IF handlers = <<>> THEN 0
    ELSE (IF outcomes[Head(handlers)] = "sent" THEN 1 ELSE 0)
             + success_count(Tail(handlers), outcomes)

\* notify without the try around handler.send: the exception of a handler
\* leaves notify.
notify_reraises(handlers, outcomes) ==
    [result |-> success_count(handlers, outcomes) > 0,
     exception |-> IF \E i \in DOMAIN handlers : outcomes[handlers[i]] = "raised"
                   THEN "Exception" ELSE "none"]

\* NotificationManager.notify: the exception of a handler is caught and
\* logged; returns success_count > 0.
notify(handlers, outcomes) ==
    [result |-> success_count(handlers, outcomes) > 0, exception |-> "none"]

\* handle_incidents: the notify_* calls of one pass of the for loop, from
\* the deduplicator's decision d and the record g of the pass's can_execute
\* call (g.n = n: the pass made no such call).
notify_events(d, g, n) ==
    IF d.dup THEN <<>>
    ELSE <<"incident_detected">>
         \o (IF g.n = n THEN <<>>
             ELSE IF ~g.allowed THEN <<"circuit_breaker_opened", "escalation">>
             ELSE IF g.success THEN <<"remediation_started", "remediation_success">>
             ELSE <<"remediation_started", "remediation_failure", "escalation">>)

\* handle_incidents left by an exception of notify_incident_detected: the
\* deduplicator has noted the incident, nothing else of the pass has run.
NotifyEscapes(exception) ==
    /\ pc = "handle"
    /\ pending # <<>>
    /\ ~should_deduplicate_incident(last_incident_time[Head(pending).type], now)
    /\ Emitted(Head(pending), LogIncident(Head(pending), FALSE), 0)
    /\ pending' = <<>>
    /\ raised' = [exception |-> exception, where |-> "notify_incident_detected",
                  iteration |-> iteration]
    /\ pc' = "except"
    /\ UNCHANGED <<now, breakerVars, db_incidents, db_actions, started, opened,
                   gate, health, iteration, clientVars, cleanupVars, actuatorVars,
                   predictVars, configVars, detectVars, last_cleanup_time,
                   cleanup_log, notified>>

\* AutoRemediationBot.handle_incidents, one pass of its for loop with the
\* notify calls it makes: the handlers answer every call of the pass alike.
HandleNotified ==
    \E handlers \in HandlerLists, outcomes \in [HandlerNames -> SendOutcomes] :
       LET sent == notify(handlers, outcomes)
       IN  IF sent.exception # "none"
           THEN NotifyEscapes(sent.exception)
           ELSE /\ HandlePass
                /\ notified' =
                       LET events == notify_events(handled'[Len(handled')], gate',
                                                   gate.n)
                       IN  IF events = <<>> THEN notified
                           ELSE [n |-> notified.n + 1,
                                 handlers |-> [i \in DOMAIN handlers |->
                                                  <<handlers[i],
                                                    outcomes[handlers[i]]>>],
                                 events |-> events,
                                 delivered |-> sent.result]

NotifySnapshots == {Snapshot(500, 50, 0, FALSE, 0), Snapshot(100, 50, 0, FALSE, 0)}

NotifySleeps == {poll_seconds, incident_dedupe_window}

PollNotify == PollFrom(NotifySnapshots, MaxIterations)

SleepNotify == SleepFor(NotifySleeps, MaxIterations)

NextNotify == PollNotify \/ HandleNotified \/ SleepNotify

SpecNotify == Init /\ [][NextNotify]_vars

-----------------------------------------------------------------------------
(* remediation.py: the three container operations of RemediationExecutor    *)
(* against a container runtime whose behaviour is an input of each call.    *)

\* container.status as the runtime reports it; "absent": no such container.
LiveStatuses == {"running", "exited", "created", "paused"}

ContainerStatuses == LiveStatuses \cup {"absent"}

\* What the runtime does during one operation: whether containers.get
\* answers, whether the restart/start/stop call returns or raises, the
\* status the container is left in by that call, and whether reload returns.
RuntimeBehaviours ==
    [lookup : {"ok", "error"}, call : {"ok", "raises"},
     post : LiveStatuses, reload : {"ok", "raises"}]

\* RemediationExecutor._get_container: None when the container is not found
\* or containers.get raises anything else.
_get_container(status, rt) == status # "absent" /\ rt.lookup = "ok"

\* The verification after restart() and start(): reload, then success iff the
\* status read is 'running'.
reload_and_verify(call, rt) ==
    IF rt.reload = "raises"
    THEN [found |-> TRUE, success |-> FALSE, error |-> "exception",
          calls |-> <<call, "reload">>, status |-> rt.post]
    ELSE [found |-> TRUE, success |-> rt.post = "running",
          error |-> IF rt.post = "running" THEN "none" ELSE "not_running",
          calls |-> <<call, "reload">>, status |-> rt.post]

\* RemediationExecutor.restart_container with the calls it makes and the
\* status it leaves the container in.
restart_container_result(status, rt) ==
    IF ~_get_container(status, rt)
    THEN [found |-> FALSE, success |-> FALSE, error |-> "not found",
          calls |-> <<>>, status |-> status]
    ELSE IF rt.call = "raises"
    THEN [found |-> TRUE, success |-> FALSE, error |-> "exception",
          calls |-> <<"restart">>, status |-> rt.post]
    ELSE reload_and_verify("restart", rt)

start_replica_always_starts(status, rt) ==
    IF ~_get_container(status, rt)
    THEN [found |-> FALSE, success |-> FALSE, error |-> "does not exist",
          calls |-> <<>>, status |-> status]
    ELSE IF rt.call = "raises"
    THEN [found |-> TRUE, success |-> FALSE, error |-> "exception",
          calls |-> <<"start">>, status |-> rt.post]
    ELSE reload_and_verify("start", rt)

\* RemediationExecutor.start_replica
start_replica(status, rt) ==
    IF ~_get_container(status, rt)
    THEN [found |-> FALSE, success |-> FALSE, error |-> "does not exist",
          calls |-> <<>>, status |-> status]
    ELSE IF status = "running"
    THEN [found |-> TRUE, success |-> TRUE, error |-> "none",
          calls |-> <<>>, status |-> status]
    ELSE IF rt.call = "raises"
    THEN [found |-> TRUE, success |-> FALSE, error |-> "exception",
          calls |-> <<"start">>, status |-> rt.post]
    ELSE reload_and_verify("start", rt)

\* RemediationExecutor.stop_replica: no reload after stop().  A stop() that
\* returns has stopped the container; one that raises leaves it in rt.post.
stop_replica(status, rt) ==
    IF ~_get_container(status, rt)
    THEN [found |-> FALSE, success |-> FALSE, error |-> "not found",
          calls |-> <<>>, status |-> status]
    ELSE IF status # "running"
    THEN [found |-> TRUE, success |-> TRUE, error |-> "none",
          calls |-> <<>>, status |-> status]
    ELSE IF rt.call = "raises"
    THEN [found |-> TRUE, success |-> FALSE, error |-> "exception",
          calls |-> <<"stop">>, status |-> rt.post]
    ELSE [found |-> TRUE, success |-> TRUE, error |-> "none",
          calls |-> <<"stop">>, status |-> "exited"]

\* What last_op keeps of one operation on container c with result r.
OpRecord(op, c, r) ==
    [op |-> op, container_name |-> c, found |-> r.found,
     before |-> containers[c], success |-> r.success, error |-> r.error,
     calls |-> r.calls, after |-> r.status]

\* Each operation leaves the container in the status its calls produced.
RestartContainer ==
    /\ \E c \in Containers, rt \in RuntimeBehaviours :
          LET r == restart_container_result(containers[c], rt)
          IN  /\ containers' = [containers EXCEPT ![c] = r.status]
              /\ last_op' = OpRecord("restart_container", c, r)
    /\ UNCHANGED <<sideVars, now, breakerVars, botVars, db_faults, iteration, clientVars,
                   cleanupVars>>

StartReplica ==
    /\ \E c \in Containers, rt \in RuntimeBehaviours :
          LET r == start_replica(containers[c], rt)
          IN  /\ containers' = [containers EXCEPT ![c] = r.status]
              /\ last_op' = OpRecord("start_replica", c, r)
    /\ UNCHANGED <<sideVars, now, breakerVars, botVars, db_faults, iteration, clientVars,
                   cleanupVars>>

StopReplica ==
    /\ \E c \in Containers, rt \in RuntimeBehaviours :
          LET r == stop_replica(containers[c], rt)
          IN  /\ containers' = [containers EXCEPT ![c] = r.status]
              /\ last_op' = OpRecord("stop_replica", c, r)
    /\ UNCHANGED <<sideVars, now, breakerVars, botVars, db_faults, iteration, clientVars,
                   cleanupVars>>

\* The container changes status outside the executor (it exits, is paused,
\* removed or created by the operator or the runtime).
ContainerChanges ==
    /\ \E c \in Containers, status \in ContainerStatuses :
          /\ status # containers[c]
          /\ containers' = [containers EXCEPT ![c] = status]
    /\ UNCHANGED <<sideVars, now, breakerVars, botVars, db_faults, iteration, clientVars,
                   cleanupVars, last_op>>

NextActuator == RestartContainer \/ StartReplica \/ StopReplica \/ ContainerChanges

SpecActuator == Init /\ [][NextActuator]_vars

-----------------------------------------------------------------------------
(* A client of the CircuitBreaker API: any sequence of can_execute,          *)
(* record_action and reset calls on any service and action type, with time  *)
(* passing between the calls.                                               *)

Call(op, service_name, action_type, allowed, success, before, after) ==
    [op |-> op, service |-> service_name, action_type |-> action_type,
     t |-> now, allowed |-> allowed, success |-> success, before |-> before,
     after |-> after]

\* last_call keeps the two most recent calls, the latest last.
Logged(call) ==
    IF Len(last_call) < 2 THEN Append(last_call, call)
    ELSE <<last_call[2], call>>

ClientCanExecute ==
    /\ calls < MaxCalls
    /\ \E s \in Targets, a \in ActionTypes :
          LET g == can_execute(circuit_state[s], action_history[<<s, a>>], now)
          IN  /\ circuit_state' = [circuit_state EXCEPT ![s] = g.state]
              /\ action_history' = [action_history EXCEPT ![<<s, a>>] = g.action_times]
              /\ last_call' = Logged(Call("can_execute", s, a, g.allowed, FALSE,
                                          circuit_state[s].state, g.state.state))
    /\ calls' = calls + 1
    /\ UNCHANGED <<sideVars, now, botVars, db_faults, iteration, cleanupVars, actuatorVars>>

ClientRecordAction ==
    /\ calls < MaxCalls
    /\ \E s \in Targets, a \in ActionTypes, success \in BOOLEAN :
          LET r == record_action(circuit_state[s], action_history[<<s, a>>], now,
                                 success)
          IN  /\ circuit_state' = [circuit_state EXCEPT ![s] = r.state]
              /\ action_history' = [action_history EXCEPT ![<<s, a>>] = r.action_times]
              /\ last_call' = Logged(Call("record_action", s, a, FALSE, success,
                                          circuit_state[s].state, r.state.state))
    /\ calls' = calls + 1
    /\ UNCHANGED <<sideVars, now, botVars, db_faults, iteration, cleanupVars, actuatorVars>>

ClientReset ==
    /\ calls < MaxCalls
    /\ \E s \in Targets :
          /\ circuit_state' = reset(circuit_state, s)
          /\ last_call' = Logged(Call("reset", s, "none", FALSE, FALSE,
                                      circuit_state[s].state, "CLOSED"))
    /\ calls' = calls + 1
    /\ UNCHANGED <<sideVars, now, action_history, botVars, db_faults, iteration,
                   cleanupVars, actuatorVars>>

\* Time the client lets pass between two calls.
ClientWaits == {cooldown_seconds + 1, window_seconds, window_seconds + 1}

ClientWait ==
    /\ \E d \in ClientWaits :
          /\ now + d <= MaxTime
          /\ now' = now + d
    /\ UNCHANGED <<sideVars, breakerVars, botVars, db_faults, iteration, clientVars,
                   cleanupVars, actuatorVars>>

NextCB == ClientCanExecute \/ ClientRecordAction \/ ClientReset \/ ClientWait

SpecCB == Init /\ [][NextCB]_vars

-----------------------------------------------------------------------------
(* A client that keeps recording attempts against one key of the breaker,   *)
(* a few seconds apart, long enough to fill the deque of the key, with      *)
(* can_execute and reset calls in between.                                  *)

\* Seconds between two record_action calls of the client.
FillStep == 3

\* CircuitBreaker.record_action on the key, then the pause of the client.
FillRecord ==
    /\ calls < MaxRecords
    /\ \E success \in BOOLEAN :
          LET r == record_action(circuit_state["ar_app"],
                                 action_history[<<"ar_app", "restart_container">>],
                                 now, success)
          IN  /\ circuit_state' = [circuit_state EXCEPT !["ar_app"] = r.state]
              /\ action_history' =
                     [action_history EXCEPT ![<<"ar_app", "restart_container">>] =
                                                r.action_times]
    /\ calls' = calls + 1
    /\ now' = now + FillStep
    /\ UNCHANGED <<sideVars, botVars, db_faults, iteration, last_call, cleanupVars,
                   actuatorVars>>

\* CircuitBreaker.can_execute on the key.
FillCanExecute ==
    /\ LET g == can_execute(circuit_state["ar_app"],
                            action_history[<<"ar_app", "restart_container">>], now)
       IN  /\ circuit_state' = [circuit_state EXCEPT !["ar_app"] = g.state]
           /\ action_history' =
                  [action_history EXCEPT ![<<"ar_app", "restart_container">>] =
                                             g.action_times]
    /\ UNCHANGED <<sideVars, now, botVars, db_faults, iteration, clientVars,
                   cleanupVars, actuatorVars>>

\* CircuitBreaker.reset on the service.
FillReset ==
    /\ circuit_state["ar_app"] # FreshCircuit
    /\ circuit_state' = reset(circuit_state, "ar_app")
    /\ UNCHANGED <<sideVars, now, action_history, botVars, db_faults, iteration,
                   clientVars, cleanupVars, actuatorVars>>

NextFill == FillRecord \/ FillCanExecute \/ FillReset

SpecFill == Init /\ [][NextFill]_vars

-----------------------------------------------------------------------------
(* A client that uses the breaker of a service for a while (record_action,  *)
(* can_execute, reset, with time passing) and then stops recording: from    *)
(* then on it only lets time pass and calls can_execute, until a call is    *)
(* allowed.  pc is "poll" while it records, then "drain", then "drained".   *)

\* Time between two can_execute calls once the client stopped recording.
DrainWaits == {incident_dedupe_window}

\* The latest attempt is recorded by MaxTime; a circuit re-opened while that
\* attempt was still in the window stays OPEN for a cooldown more.
DrainMaxTime ==
    MaxTime + window_seconds + cooldown_seconds + incident_dedupe_window

DrainRecordAction ==
    /\ pc = "poll"
    /\ calls < MaxDrainCalls
    /\ \E s \in Targets, a \in ActionTypes, success \in BOOLEAN :
          LET r == record_action(circuit_state[s], action_history[<<s, a>>], now,
                                 success)
          IN  /\ circuit_state' = [circuit_state EXCEPT ![s] = r.state]
              /\ action_history' = [action_history EXCEPT ![<<s, a>>] = r.action_times]
    /\ calls' = calls + 1
    /\ UNCHANGED <<sideVars, now, botVars, db_faults, iteration, last_call,
                   cleanupVars, actuatorVars>>

DrainReset ==
    /\ pc = "poll"
    /\ calls < MaxDrainCalls
    /\ \E s \in Targets :
          /\ circuit_state[s] # FreshCircuit
          /\ circuit_state' = reset(circuit_state, s)
    /\ calls' = calls + 1
    /\ UNCHANGED <<sideVars, now, action_history, botVars, db_faults, iteration,
                   last_call, cleanupVars, actuatorVars>>

\* can_execute while the client still records.
DrainLoadCanExecute ==
    /\ pc = "poll"
    /\ \E s \in Targets, a \in ActionTypes :
          LET g == can_execute(circuit_state[s], action_history[<<s, a>>], now)
          IN  /\ circuit_state' = [circuit_state EXCEPT ![s] = g.state]
              /\ action_history' = [action_history EXCEPT ![<<s, a>>] = g.action_times]
    /\ UNCHANGED <<sideVars, now, botVars, db_faults, iteration, clientVars,
                   cleanupVars, actuatorVars>>

DrainLoadWait ==
    /\ pc = "poll"
    /\ \E d \in ClientWaits :
          /\ now + d <= MaxTime
          /\ now' = now + d
    /\ UNCHANGED <<sideVars, breakerVars, botVars, db_faults, iteration, clientVars,
                   cleanupVars, actuatorVars>>

\* The last record_action call was made.
StopRecording ==
    /\ pc = "poll"
    /\ pc' = "drain"
    /\ UNCHANGED <<sideVars, now, breakerVars, last_incident_time, db_incidents,
                   db_actions, health, pending, handled, passed, started, opened,
                   gate, db_faults, iteration, clientVars, cleanupVars,
                   actuatorVars>>

\* can_execute after the last record_action call; the client stops at the
\* first call that is allowed.
DrainCanExecute ==
    /\ pc = "drain"
    /\ \E s \in Targets, a \in ActionTypes :
          LET g == can_execute(circuit_state[s], action_history[<<s, a>>], now)
          IN  /\ circuit_state' = [circuit_state EXCEPT ![s] = g.state]
              /\ action_history' = [action_history EXCEPT ![<<s, a>>] = g.action_times]
              /\ last_call' = Logged(Call("can_execute", s, a, g.allowed, FALSE,
                                          circuit_state[s].state, g.state.state))
              /\ pc' = IF g.allowed THEN "drained" ELSE "drain"
    /\ UNCHANGED <<sideVars, now, last_incident_time, db_incidents, db_actions,
                   health, pending, handled, passed, started, opened, gate,
                   db_faults, iteration, calls, cleanupVars, actuatorVars>>

DrainWait ==
    /\ pc = "drain"
    /\ \E d \in DrainWaits :
          /\ now + d <= DrainMaxTime
          /\ now' = now + d
    /\ UNCHANGED <<sideVars, breakerVars, botVars, db_faults, iteration, clientVars,
                   cleanupVars, actuatorVars>>

NextDrain ==
    \/ DrainRecordAction
    \/ DrainReset
    \/ DrainLoadCanExecute
    \/ DrainLoadWait
    \/ StopRecording
    \/ DrainCanExecute
    \/ DrainWait

SpecDrain == Init /\ [][NextDrain]_vars

\* Time keeps advancing and the client keeps calling can_execute.
FairSpecDrain == SpecDrain /\ WF_vars(DrainWait) /\ WF_vars(DrainCanExecute)

-----------------------------------------------------------------------------
(* Properties of the monitor loop (Spec) *)

StartsOf(target) == {k \in DOMAIN started : started[k].target = target}

PassesOf(type) == {i \in DOMAIN passed : passed[i].type = type}

ActionRowsOf(incident_id) ==
    {k \in DOMAIN db_actions : db_actions[k].incident_id = incident_id}

\* C1: breaker rate bound.  For every target, every window of window_seconds
\* holds at most max_failures execute_action calls started by the loop: the
\* calls started in [t, t + window_seconds], t the start of any of them, are
\* at most max_failures.
C1_BreakerRateBound ==
    \A i \in DOMAIN started :
        Cardinality({k \in StartsOf(started[i].target) :
                        /\ started[k].t >= started[i].t
                        /\ started[k].t <= started[i].t + window_seconds})
            <= max_failures

\* max_failures calls were started inside one window and the gate blocked the
\* next one inside that window; a later one started after the window.
C1_Witness ==
    /\ Len(started) = max_failures + 1
    /\ started[max_failures].t - started[1].t <= window_seconds
    /\ Len(opened) >= 1
    /\ opened[1].t - started[1].t <= window_seconds
    /\ started[max_failures + 1].t > opened[1].t

\* C2: cooldown enforcement.  Once can_execute has opened the circuit of a
\* target at t0, the loop's can_execute calls for it at a time in
\* [t0, t0 + cooldown_seconds) are blocked and no execute_action is started
\* against it in that interval (opened[o].starts is the number of calls
\* started before the transition).
C2_CooldownEnforcement ==
    \A o \in DOMAIN opened :
        /\ \A k \in StartsOf(opened[o].target) :
              k > opened[o].starts
                  => ~(/\ opened[o].t <= started[k].t
                       /\ started[k].t < opened[o].t + cooldown_seconds)
        /\ (/\ gate.target = opened[o].target
            /\ opened[o].t <= gate.t
            /\ gate.t < opened[o].t + cooldown_seconds) => ~gate.allowed

\* A call blocked by the cooldown alone: fewer than max_failures attempts are
\* left in the window.
C2_Witness ==
    /\ gate.reason = "cooldown"
    /\ Len(Evict(action_history[<<gate.target, "restart_container">>],
                 gate.t - window_seconds)) < max_failures

RecentAttempts ==
    {k \in StartsOf(gate.target) :
        /\ k <= gate.starts
        /\ started[k].done >= gate.t - window_seconds}

AfterCooldown ==
    /\ gate.before = "OPEN"
    /\ gate.t - gate.opened_at_before = cooldown_seconds + 1

C8_DedupWindow ==
    \A i, j \in DOMAIN passed :
        (i < j /\ passed[i].type = passed[j].type)
            => passed[j].t - passed[i].t >= incident_dedupe_window

\* A type passed twice, and in the current iteration an incident of a type
\* was dropped whose severity differs from the one that passed last.
C8_Witness ==
    /\ \E i, j \in DOMAIN passed : i < j /\ passed[i].type = passed[j].type
    /\ \E k \in DOMAIN handled :
          /\ handled[k].dup
          /\ \E i \in PassesOf(handled[k].type) :
                /\ passed[i].t = last_incident_time[handled[k].type]
                /\ passed[i].severity # handled[k].severity

LastPass(type) ==
    IF PassesOf(type) = {} THEN 0
    ELSE passed[CHOOSE i \in PassesOf(type) : \A j \in PassesOf(type) : j <= i].t

\* C9: cpu_spike flag.  At the end of every iteration whose snapshot has the
\* cpu_spike flag set, a cpu_spike incident went through the deduplicator; it
\* was dropped exactly when one passed less than 60 s before, and passed
\* otherwise; dropped incidents leave last_incident_time at the time of the
\* last one that passed.
C9_CpuFlagOncePerWindow ==
    /\ last_incident_time["cpu_spike"] = LastPass("cpu_spike")
    /\ (pc = "handle" /\ pending = <<>> /\ health.ok /\ health.cpu_spike) =>
          \E k \in DOMAIN handled :
              /\ handled[k].type = "cpu_spike"
              /\ handled[k].dup <=>
                    \E i \in PassesOf("cpu_spike") :
                        /\ passed[i].t < handled[k].t
                        /\ handled[k].t - passed[i].t < incident_dedupe_window
              /\ ~handled[k].dup =>
                    \E i \in PassesOf("cpu_spike") : passed[i].t = handled[k].t

\* The flag is set with the CPU usage below the threshold, and cpu_spike
\* passed for the second time, exactly 60 s after the first.
C9_Witness ==
    /\ pc = "handle" /\ pending = <<>>
    /\ health.ok /\ health.cpu_spike
    /\ health.cpu_usage_percent <= thresholds.cpu_percent
    /\ Cardinality(PassesOf("cpu_spike")) = 2
    /\ \E i, j \in PassesOf("cpu_spike") :
          passed[j].t - passed[i].t = incident_dedupe_window

\* C10: at most one action per incident.  No incident row has more than one
\* remediation_actions row with its id.
C10_AtMostOneActionPerIncident ==
    \A i \in DOMAIN db_incidents :
        Cardinality(ActionRowsOf(db_incidents[i].id)) <= 1

\* An incident whose action failed, a later incident whose action was
\* blocked, and a still later incident with an action of its own.
C10_Witness ==
    \E i, j, l \in DOMAIN db_incidents :
        /\ i < j /\ j < l
        /\ \E k \in ActionRowsOf(db_incidents[i].id) : ~db_actions[k].success
        /\ ActionRowsOf(db_incidents[j].id) = {}
        /\ gate.n > j
        /\ ActionRowsOf(db_incidents[l].id) # {}
        /\ db_incidents[i].status = "ACTIVE"

\* C11: resolution after success.  An incident row is RESOLVED only if an
\* action row with its id and success = true was inserted, also when the
\* insert of the action row fails.
C11_ResolvedOnlyAfterSuccessRow ==
    \A i \in DOMAIN db_incidents :
        db_incidents[i].status = "RESOLVED"
            => \E k \in ActionRowsOf(db_incidents[i].id) : db_actions[k].success

\* C12: when can_execute blocks the action of an incident, the incident row
\* becomes ESCALATED, no execute_action call is started for it and it gets no
\* action row.
C12_BlockedEscalates ==
    (gate.n >= 1 /\ ~gate.allowed /\ gate.incident_id # None)
        => /\ db_incidents[gate.incident_id].status = "ESCALATED"
           /\ Len(started) = gate.starts
           /\ ActionRowsOf(gate.incident_id) = {}

\* C13: when log_incident yields no id, the loop makes no execute_action
\* call for the incident and the breaker records no attempt.
C13_NoIdNoAction ==
    (gate.n >= 1 /\ gate.incident_id = None)
        => /\ Len(started) = gate.starts
           /\ circuit_state[gate.target].last_attempt # gate.t

\* C14: when execute_action reports failure for the action of an incident,
\* the breaker has the attempt as the last entry of its history, the incident
\* row is still ACTIVE and, no database statement having failed, exactly one
\* action row, with success = false, is recorded for the incident.
C14_FailureRecorded ==
    (gate.n >= 1 /\ gate.allowed /\ ~gate.success)
        => /\ Len(started) = gate.starts + 1
           /\ LET h == action_history[<<gate.target, started[Len(started)].action_type>>]
              IN  /\ h # <<>>
                  /\ h[Len(h)] = started[Len(started)].done
           /\ circuit_state[gate.target].last_attempt = started[Len(started)].done
           /\ gate.incident_id # None
                 => db_incidents[gate.incident_id].status = "ACTIVE"
           /\ db_faults = 0
                 => /\ gate.incident_id # None
                    /\ Cardinality(ActionRowsOf(gate.incident_id)) = 1
                    /\ \A k \in ActionRowsOf(gate.incident_id) :
                          ~db_actions[k].success

\* A failed action whose incident and action rows were inserted, in a pass
\* that found earlier attempts in the history.
C14_Witness ==
    /\ gate.n >= 2
    /\ gate.allowed
    /\ ~gate.success
    /\ db_faults = 0
    /\ Len(action_history[<<gate.target, "restart_container">>]) >= 2

\* C20: the strategy maps an incident to at most one action.  In every pass
\* of handle_incidents, health_check_failed, high_error_rate, cpu_spike
\* (whatever the CPU usage) and high_response_time map to restart_container
\* on ar_app; any other type maps to no action, and the pass makes no
\* can_execute call, starts no execute_action call and leaves the breaker
\* as it is.
C20_StrategyMapping ==
    [][(pc = "handle" /\ pending # <<>>) =>
          LET incident == Head(pending)
              action == get_action_for_incident(incident)
          IN  IF incident.type \in {"health_check_failed", "high_error_rate",
                                    "cpu_spike", "high_response_time"}
              THEN action = [action_type |-> "restart_container",
                             target |-> "ar_app"]
              ELSE /\ action = NoAction
                   /\ gate' = gate
                   /\ started' = started
                   /\ circuit_state' = circuit_state
                   /\ action_history' = action_history
                   /\ db_actions' = db_actions]_vars

\* An ml_anomaly incident passed the deduplicator and was logged, and no
\* can_execute call was ever made.
C20_Witness ==
    /\ PassesOf("ml_anomaly") # {}
    /\ \E i \in DOMAIN db_incidents : db_incidents[i].type = "ml_anomaly"
    /\ gate = NoGate
    /\ started = <<>>

\* C21: an ml_anomaly incident with severity CRITICAL is mapped by the
\* strategy to restart_container on the primary app container ar_app.
C21_MLAnomalyCriticalRestarts ==
    [][(/\ pc = "handle"
        /\ pending # <<>>
        /\ Head(pending).type = "ml_anomaly"
        /\ Head(pending).severity = "CRITICAL")
          => get_action_for_incident(Head(pending))
                = [action_type |-> "restart_container", target |-> "ar_app"]]_vars

\* The positions of a call in the calls of the last pass that reached the
\* circuit breaker.
CallsOf(call) == {i \in DOMAIN gate.calls : gate.calls[i] = call}

\* C29: within a tick the operations for one incident run strictly in the
\* order can_execute, execute_action, record_action, log_remediation_action,
\* update_incident_resolved.  An allowed can_execute is followed by exactly
\* one execute_action and exactly one record_action before the next
\* incident's can_execute; a blocked one is followed by no execute_action
\* and no record_action.
C29_PassOrder ==
    gate # NoGate
        => /\ gate.calls[1] = "can_execute"
           /\ Cardinality(CallsOf("can_execute")) = 1
           /\ \A i, j \in DOMAIN gate.calls :
                 (/\ i < j
                  /\ gate.calls[i] \in {"execute_action", "record_action",
                                        "log_remediation_action"})
                    => <<gate.calls[i], gate.calls[j]>> \in
                          {<<"execute_action", "record_action">>,
                           <<"execute_action", "log_remediation_action">>,
                           <<"execute_action", "update_incident_resolved">>,
                           <<"record_action", "log_remediation_action">>,
                           <<"record_action", "update_incident_resolved">>,
                           <<"log_remediation_action", "update_incident_resolved">>}
           /\ IF gate.allowed
              THEN /\ Cardinality(CallsOf("execute_action")) = 1
                   /\ Cardinality(CallsOf("record_action")) = 1
                   /\ Len(started) = gate.starts + 1
                   /\ circuit_state[gate.target].last_attempt = started[Len(started)].done
              ELSE /\ gate.calls = <<"can_execute">>
                   /\ Len(started) = gate.starts

\* A pass went through all five calls: the gate allowed, the action
\* succeeded and the incident had an id.
C29_Witness ==
    /\ gate.allowed
    /\ gate.success
    /\ gate.incident_id # None
    /\ Len(gate.calls) = 5
    /\ gate.calls[5] = "update_incident_resolved"

\* The execute_action calls the loop started against the target in the
\* current iteration: handled[1].t is the time the iteration began to handle
\* its incidents, and every earlier iteration ended a sleep before it.
StartsOfIteration(target) ==
    {k \in StartsOf(target) : handled # <<>> /\ started[k].t >= handled[1].t}

\* C36: within one iteration the loop starts at most one restart against a
\* target, also when several detectors emit incidents in that iteration
\* that all map to the target.
C36_OneRestartPerTick ==
    \A target \in Targets : Cardinality(StartsOfIteration(target)) <= 1

\* The passes of earlier iterations whose log_incident failed: the incident
\* passed the deduplicator before the current iteration began and no row of
\* table incidents carries its type and time.
UnloggedBefore(type) ==
    {i \in DOMAIN passed :
        /\ passed[i].type = type
        /\ handled # <<>>
        /\ passed[i].t < handled[1].t
        /\ ~\E r \in DOMAIN db_incidents :
               /\ db_incidents[r].type = type
               /\ db_incidents[r].timestamp = passed[i].t}

\* C32: when log_incident failed for an incident in the first iteration and
\* that was the only database failure, an incident of the same type
\* detected in the second iteration passes the deduplicator and is logged
\* in the second iteration.
C32_UnloggedIncidentLoggedNextTick ==
    (iteration = 2 /\ pc = "handle" /\ pending = <<>> /\ db_faults = 1)
        => \A k \in DOMAIN handled :
              UnloggedBefore(handled[k].type) # {}
                  => /\ ~handled[k].dup
                     /\ \E r \in DOMAIN db_incidents :
                           /\ db_incidents[r].type = handled[k].type
                           /\ db_incidents[r].timestamp = handled[k].t

-----------------------------------------------------------------------------
(* Properties of the run of failing probes (SpecProbe) *)

\* The second of two failing ticks was handled, having begun a poll
\* interval after the first one ended, and no database statement failed.
TwoFailingTicks ==
    /\ iteration = 2
    /\ pc = "handle"
    /\ pending = <<>>
    /\ ~health.ok
    /\ now - StartTime < incident_dedupe_window
    /\ db_faults = 0

\* C26: probe failure.  A tick whose probe yields no snapshot has exactly
\* one candidate, a health_check_failed incident with severity CRITICAL.
\* After two consecutive failing ticks 5 s apart exactly one such incident
\* is logged (the second is deduplicated) and exactly one restart_container
\* action was issued, against ar_app, the incident being RESOLVED if the
\* actuator succeeded (the database statements succeeding).
C26_ProbeFailure ==
    /\ (pc = "handle" /\ ~health.ok)
          => /\ Len(pending) + Len(handled) = 1
             /\ \A i \in DOMAIN pending :
                   pending[i] = Incident("health_check_failed", "CRITICAL", 0)
             /\ \A i \in DOMAIN handled :
                   /\ handled[i].type = "health_check_failed"
                   /\ handled[i].severity = "CRITICAL"
    /\ TwoFailingTicks
          => /\ Len(db_incidents) = 1
             /\ db_incidents[1].type = "health_check_failed"
             /\ db_incidents[1].severity = "CRITICAL"
             /\ Len(handled) = 1
             /\ handled[1].dup
             /\ Len(started) = 1
             /\ started[1].action_type = "restart_container"
             /\ started[1].target = "ar_app"
             /\ Len(db_actions) = 1
             /\ db_actions[1].incident_id = db_incidents[1].id
             /\ db_incidents[1].status =
                   IF started[1].success THEN "RESOLVED" ELSE "ACTIVE"

\* Two failing ticks 5 s apart were handled and the restart of the first
\* one succeeded.
C26_Witness ==
    /\ TwoFailingTicks
    /\ Len(started) = 1
    /\ started[1].success
    /\ now = started[1].done + poll_seconds

-----------------------------------------------------------------------------
(* Properties of the run of error-rate ticks (SpecTrip) *)

\* Four ticks 10 s apart were handled, every execute_action call failed and
\* no database statement failed.
FourTicksTenSecondsApart ==
    /\ iteration = 4
    /\ pc = "handle"
    /\ pending = <<>>
    /\ now = StartTime + 3 * 10
    /\ db_faults = 0
    /\ \A k \in DOMAIN started : ~started[k].success

\* C15: breaker-trip scenario.  After four ticks 10 s apart that observe an
\* error rate of 0.5 with an actuator that always fails, there are 4
\* incident rows and 3 action rows, all failed, the 4th can_execute call
\* was blocked because the circuit opened, and the 4th incident is
\* ESCALATED.
C15_BreakerTripScenario ==
    FourTicksTenSecondsApart
        => /\ Len(db_incidents) = 4
           /\ Len(db_actions) = 3
           /\ \A k \in DOMAIN db_actions : ~db_actions[k].success
           /\ gate.n = 4
           /\ ~gate.allowed
           /\ gate.after = "OPEN"
           /\ db_incidents[4].status = "ESCALATED"

-----------------------------------------------------------------------------
(* Properties of the loop with the failure predictor (SpecPredict) *)

\* C22: every incident the loop persists, whether it comes from the
\* detector chain, from the fabricated probe-failure incident or from the
\* failure-prediction hook, has a severity in {INFO, WARNING, CRITICAL} and
\* one of the six incident types.
C22_PersistedSeverityAndType ==
    \A i \in DOMAIN db_incidents :
        /\ db_incidents[i].severity \in {"INFO", "WARNING", "CRITICAL"}
        /\ db_incidents[i].type \in
              {"health_check_failed", "high_error_rate", "cpu_spike",
               "high_response_time", "ml_anomaly", "predicted_failure"}

-----------------------------------------------------------------------------
(* Properties of the detector chain (SpecDetect) *)

\* The incidents of the given type in the result of the last detect_all call.
DetectedOf(type) ==
    {i \in DOMAIN detected.incidents : detected.incidents[i].type = type}

\* The last detect_all call ran the given detector on a health snapshot.
Ran(detector) ==
    /\ detected.health_data.ok
    /\ detector \notin detected.raising

\* C23, as stated: a snapshot whose cpu usage is exactly 1.2 x the cpu
\* threshold yields a cpu_spike incident with severity CRITICAL.
C23_BoundaryIsCritical ==
    (/\ Ran("CPUSpikeDetector")
     /\ detected.health_data.cpu_usage_percent * 10
           = detected.thresholds.cpu_percent * 12)
        => \E i \in DetectedOf("cpu_spike") :
              detected.incidents[i].severity = "CRITICAL"

\* C23, amended: a snapshot whose cpu usage is exactly 1.2 x the cpu
\* threshold yields exactly one cpu_spike incident, with severity WARNING;
\* a cpu_spike incident is CRITICAL exactly when the cpu usage is strictly
\* greater than 1.2 x the threshold.
C23_BoundaryIsWarning ==
    Ran("CPUSpikeDetector")
        => /\ detected.health_data.cpu_usage_percent * 10
                 = detected.thresholds.cpu_percent * 12
                 => /\ Cardinality(DetectedOf("cpu_spike")) = 1
                    /\ \A i \in DetectedOf("cpu_spike") :
                          detected.incidents[i].severity = "WARNING"
           /\ \A i \in DetectedOf("cpu_spike") :
                 detected.incidents[i].severity = "CRITICAL"
                    <=> detected.health_data.cpu_usage_percent * 10
                           > detected.thresholds.cpu_percent * 12

\* detect_all ran on a cpu usage of 96 with the threshold 80 and returned a
\* cpu_spike incident with severity WARNING.
C23_Witness ==
    /\ Ran("CPUSpikeDetector")
    /\ detected.thresholds.cpu_percent = cpu_percent_threshold
    /\ detected.health_data.cpu_usage_percent * 10 = cpu_percent_threshold * 12
    /\ \E i \in DetectedOf("cpu_spike") :
          detected.incidents[i].severity = "WARNING"

\* C24: for every snapshot and threshold, the error-rate detector emits
\* high_error_rate if and only if the error rate is strictly greater than
\* the threshold (nothing at the threshold), with severity CRITICAL if the
\* error rate is greater than 3 x the threshold and WARNING otherwise.
C24_ErrorRateDetector ==
    Ran("ErrorRateDetector")
        => /\ DetectedOf("high_error_rate") # {}
                 <=> detected.health_data.error_rate > detected.thresholds.error_rate
           /\ Cardinality(DetectedOf("high_error_rate")) <= 1
           /\ \A i \in DetectedOf("high_error_rate") :
                 detected.incidents[i].severity =
                     IF detected.health_data.error_rate
                           > 3 * detected.thresholds.error_rate
                     THEN "CRITICAL" ELSE "WARNING"

\* detect_all ran on an error rate equal to the threshold and returned no
\* high_error_rate incident.
C24_Witness ==
    /\ Ran("ErrorRateDetector")
    /\ detected.health_data.error_rate = detected.thresholds.error_rate
    /\ DetectedOf("high_error_rate") = {}

\* C25: detector isolation.  In detect_all a detector that raises
\* contributes no incident and does not keep any other detector from
\* running: the list returned holds, in the order of the chain, exactly the
\* incidents that the detectors that did not raise return on the same health
\* data.
C25_DetectorIsolation ==
    LET h == detected.health_data
        th == detected.thresholds
        Own(detector) ==
            CASE detector = "ErrorRateDetector" -> ErrorRateDetector(h, th)
              [] detector = "CPUSpikeDetector" -> CPUSpikeDetector(h, th)
              [] detector = "ResponseTimeDetector" -> ResponseTimeDetector(h, th)
              [] detector = "MLAnomalyDetector" -> MLAnomalyDetector(h, th)
        TypeOf(detector) ==
            CASE detector = "ErrorRateDetector" -> "high_error_rate"
              [] detector = "CPUSpikeDetector" -> "cpu_spike"
              [] detector = "ResponseTimeDetector" -> "high_response_time"
              [] detector = "MLAnomalyDetector" -> "ml_anomaly"
    IN  \A detector \in RaisingDetectors :
            IF detector \in detected.raising
            THEN DetectedOf(TypeOf(detector)) = {}
            ELSE /\ Cardinality(DetectedOf(TypeOf(detector))) = Len(Own(detector))
                 /\ \A i \in DetectedOf(TypeOf(detector)) :
                       detected.incidents[i] = Own(detector)[1]

\* The error-rate detector raised on a snapshot that breaches every
\* threshold, and detect_all returned the incidents of the three detectors
\* after it.
C25_Witness ==
    /\ detected.health_data.ok
    /\ detected.raising = {"ErrorRateDetector"}
    /\ detected.health_data.error_rate > detected.thresholds.error_rate
    /\ DetectedOf("high_error_rate") = {}
    /\ DetectedOf("cpu_spike") # {}
    /\ DetectedOf("high_response_time") # {}
    /\ DetectedOf("ml_anomaly") # {}

-----------------------------------------------------------------------------
(* Properties of the loop with the thresholds in table config (SpecConfig) *)

\* The current iteration produced a cpu_spike incident.
CpuSpikeEmitted ==
    \/ \E i \in DOMAIN pending : pending[i].type = "cpu_spike"
    \/ \E i \in DOMAIN handled : handled[i].type = "cpu_spike"

\* C27: config live update.  Every 10th iteration re-reads the thresholds
\* before its probe and its detectors run, so the value of the row committed
\* before iteration 10k is the one the detectors use in iteration 10k (the
\* read returning it): with the cpu threshold raised from 80 to 95 before
\* iteration 10, a cpu usage of 90 at iteration 10 emits no cpu_spike.  The
\* detectors therefore never work for 10 iterations without a re-read.
C27_ConfigLiveUpdate ==
    /\ (pc = "handle" /\ iteration % refresh_interval = 0)
          => /\ last_refresh.iteration = iteration
             /\ (last_refresh.read = "ok" /\ config_thresholds # NoConfig)
                   => /\ detector_thresholds = config_thresholds
                      /\ CpuSpikeEmitted
                            <=> health.cpu_usage_percent
                                   > config_thresholds.cpu_percent
    /\ iteration >= refresh_interval
          => /\ last_refresh.iteration # None
             /\ iteration - last_refresh.iteration < refresh_interval

\* The detectors held the cpu threshold 80 through iteration 9, the row was
\* changed to 95, and iteration 10 saw a cpu usage of 90 without emitting a
\* cpu_spike incident.
C27_Witness ==
    /\ pc = "handle"
    /\ iteration = refresh_interval
    /\ last_refresh.iteration = iteration
    /\ last_refresh.read = "ok"
    /\ last_refresh.before.cpu_percent = cpu_percent_threshold
    /\ config_thresholds.cpu_percent = 95
    /\ detector_thresholds.cpu_percent = 95
    /\ health.cpu_usage_percent = 90
    /\ ~CpuSpikeEmitted

\* C37: a failed read of the thresholds leaves the thresholds in effect
\* alone.  After an update_thresholds_from_db call whose query raised, the
\* detectors hold the thresholds they held before the call.
C37_FailedReadKeepsThresholds ==
    last_refresh.read = "query_failed"
        => detector_thresholds = last_refresh.before

-----------------------------------------------------------------------------
(* Properties of update_incident_resolved (SpecResolve) *)

\* C28: resolving is idempotent.  No step changes a row of incidents that
\* is already RESOLVED: a further update_incident_resolved call on it leaves
\* status, resolved_at and resolution_time_seconds as the first one set them.
C28_ResolveIdempotent ==
    [][\A i \in DOMAIN db_incidents :
          db_incidents[i].status = "RESOLVED"
              => /\ i \in DOMAIN db_incidents'
                 /\ db_incidents'[i] = db_incidents[i]]_vars

-----------------------------------------------------------------------------
(* Properties of the retention sweep (SpecCleanup) *)

\* C16: retention.  After cleanup_old_records committed, no row of
\* incidents and no row of remediation_actions is older than the cutoff, and
\* the counts returned are the numbers of rows the call deleted from each
\* table.
C16_RetentionSweep ==
    last_cleanup.status = "done"
        => /\ Older(db_incidents, last_cleanup.cutoff_date) = <<>>
           /\ Older(db_actions, last_cleanup.cutoff_date) = <<>>
           /\ last_cleanup.result.incidents =
                  Len(last_cleanup.incidents_before) - Len(last_cleanup.incidents_after)
           /\ last_cleanup.result.remediation_actions =
                  Len(last_cleanup.actions_before) - Len(last_cleanup.actions_after)

\* C17: the sweep deletes old rows only.  After cleanup_old_records
\* committed, the rows of either table whose own timestamp is at or after
\* the cutoff are the ones that were there before the call.
C17_KeepsRecentRows ==
    last_cleanup.status = "done"
        => /\ NotOlder(last_cleanup.incidents_after, last_cleanup.cutoff_date)
                 = NotOlder(last_cleanup.incidents_before, last_cleanup.cutoff_date)
           /\ NotOlder(last_cleanup.actions_after, last_cleanup.cutoff_date)
                 = NotOlder(last_cleanup.actions_before, last_cleanup.cutoff_date)

-----------------------------------------------------------------------------
(* Properties of the container operations (SpecActuator) *)

\* C18: idempotence of the actuator.  start_replica on a container found
\* running returns success, makes no start call and leaves the container's
\* status as it was; stop_replica on a container found exited returns
\* success and makes no stop call; restart_container makes a restart call
\* every time it finds the container, whatever its status.
C18_ActuatorIdempotence ==
    /\ (last_op.op = "start_replica" /\ last_op.found /\ last_op.before = "running")
          => /\ last_op.success
             /\ last_op.calls = <<>>
             /\ last_op.after = last_op.before
    /\ (last_op.op = "stop_replica" /\ last_op.found /\ last_op.before = "exited")
          => /\ last_op.success
             /\ last_op.calls = <<>>
    /\ (last_op.op = "restart_container" /\ last_op.found)
          => /\ last_op.calls # <<>>
             /\ Head(last_op.calls) = "restart"

\* start_replica returned for a container it found running.
C18_Witness ==
    /\ last_op.op = "start_replica"
    /\ last_op.found
    /\ last_op.before = "running"
    /\ last_op.success
    /\ last_op.calls = <<>>

\* The statuses that count as the desired post-state of an operation: a
\* container that exited or was never started is stopped, a paused one is not.
DesiredPostState(op) ==
    IF op = "stop_replica" THEN {"exited", "created"} ELSE {"running"}

\* C19: every operation returns success exactly when the container's status
\* after the call is the desired post-state ('running' after
\* restart_container and start_replica, exited after stop_replica), and a
\* missing container gives a failure with a not-found error and no runtime
\* call.  The converse of the first part is required here only of the calls
\* in which the runtime raised nothing.
C19_SuccessIffDesiredState ==
    last_op.op # "none"
        => /\ last_op.before = "absent"
                 => /\ ~last_op.success
                    /\ last_op.error \in {"not found", "does not exist"}
                    /\ last_op.calls = <<>>
           /\ last_op.success => last_op.after \in DesiredPostState(last_op.op)
           /\ (/\ last_op.found
               /\ last_op.error # "exception"
               /\ last_op.after \in DesiredPostState(last_op.op))
                 => last_op.success

-----------------------------------------------------------------------------
(* Properties of the CircuitBreaker API (SpecCB) *)

\* The last two calls were made on the same service, back to back.
Consecutive(op1, op2) ==
    /\ Len(last_call) = 2
    /\ last_call[1].op = op1
    /\ last_call[2].op = op2
    /\ last_call[1].service = last_call[2].service
    /\ last_call[1].t = last_call[2].t

\* C5: an allowed can_execute that leaves the circuit HALF_OPEN followed by
\* record_action(success = True) leaves it CLOSED with failure_count = 0 and
\* opened_at cleared.
C5_HalfOpenSuccessCloses ==
    (/\ Consecutive("can_execute", "record_action")
     /\ last_call[1].allowed
     /\ last_call[1].after = "HALF_OPEN"
     /\ last_call[2].success)
        => /\ circuit_state[last_call[2].service].state = "CLOSED"
           /\ circuit_state[last_call[2].service].failure_count = 0
           /\ circuit_state[last_call[2].service].opened_at = None

\* The circuit had been OPEN before that can_execute call.
C5_Witness ==
    /\ Consecutive("can_execute", "record_action")
    /\ last_call[1].allowed
    /\ last_call[1].before = "OPEN"
    /\ last_call[1].after = "HALF_OPEN"
    /\ last_call[2].success
    /\ last_call[2].after = "CLOSED"

\* C6: a failed action recorded while the circuit is HALF_OPEN re-opens it.
C6_HalfOpenFailureReopens ==
    (/\ Len(last_call) >= 1
     /\ last_call[Len(last_call)].op = "record_action"
     /\ last_call[Len(last_call)].before = "HALF_OPEN"
     /\ ~last_call[Len(last_call)].success)
        => circuit_state[last_call[Len(last_call)].service].state = "OPEN"

\* C7: the can_execute call right after reset is allowed, whatever was
\* recorded before the reset, and reset leaves the service's histories empty.
C7_ResetAllowsNext ==
    /\ Consecutive("reset", "can_execute") => last_call[2].allowed
    /\ (Len(last_call) >= 1 /\ last_call[Len(last_call)].op = "reset")
          => \A a \in ActionTypes :
                action_history[<<last_call[Len(last_call)].service, a>>] = <<>>

\* The attempts against the service, of any action type, that the breaker
\* holds and that lie inside the window ending now.
AttemptsInWindow(s) ==
    {p \in UNION {{<<a, i>> : i \in DOMAIN action_history[<<s, a>>]} :
                    a \in ActionTypes} :
        action_history[<<s, p[1]>>][p[2]] >= now - window_seconds}

\* C30: the gate counts all attempts against the target inside the window,
\* whatever their action type: a can_execute call made when max_failures
\* attempts of any type against the service lie inside the window is blocked.
C30_GateCountsAllTypes ==
    (/\ Len(last_call) >= 1
     /\ last_call[Len(last_call)].op = "can_execute"
     /\ last_call[Len(last_call)].t = now
     /\ Cardinality(AttemptsInWindow(last_call[Len(last_call)].service))
           >= max_failures)
        => ~last_call[Len(last_call)].allowed

\* The latest call of the client.
LatestCall == last_call[Len(last_call)]

\* C39: circuit state transitions.  A step that changes the state of the
\* circuit of a service is one of: to OPEN from CLOSED or HALF_OPEN, made by
\* can_execute with at least max_failures attempts of the key inside the
\* window; OPEN to HALF_OPEN, made by can_execute once the cooldown has
\* elapsed; HALF_OPEN to CLOSED, made by record_action with success; to
\* CLOSED by reset.  A step that gives an OPEN circuit a new opened_at is a
\* can_execute call after the cooldown that goes through HALF_OPEN.  So
\* record_action never opens the circuit and OPEN never becomes CLOSED
\* except through HALF_OPEN or reset.
C39_CircuitTransitions ==
    [][\A s \in Targets :
          LET before == circuit_state[s]
              after == circuit_state'[s]
              call == LatestCall'
              in_window == Len(Evict(action_history[<<s, call.action_type>>],
                                     now - window_seconds))
          IN  /\ before.state # after.state =>
                    /\ calls' = calls + 1
                    /\ call.service = s
                    /\ \/ /\ before.state \in {"CLOSED", "HALF_OPEN"}
                          /\ after.state = "OPEN"
                          /\ call.op = "can_execute"
                          /\ ~call.allowed
                          /\ in_window >= max_failures
                          /\ after.opened_at = now
                       \/ /\ before.state = "OPEN"
                          /\ after.state = "HALF_OPEN"
                          /\ call.op = "can_execute"
                          /\ call.allowed
                          /\ now - before.opened_at >= cooldown_seconds
                       \/ /\ before.state = "HALF_OPEN"
                          /\ after.state = "CLOSED"
                          /\ call.op = "record_action"
                          /\ call.success
                       \/ /\ after.state = "CLOSED"
                          /\ call.op = "reset"
              /\ (/\ before.state = "OPEN"
                  /\ after.state = "OPEN"
                  /\ before.opened_at # after.opened_at) =>
                    /\ call.op = "can_execute"
                    /\ ~call.allowed
                    /\ now - before.opened_at >= cooldown_seconds
                    /\ in_window >= max_failures
                    /\ after.opened_at = now]_vars

\* The last two calls took the circuit from OPEN to HALF_OPEN (can_execute
\* after the cooldown) and from HALF_OPEN back to OPEN (can_execute with the
\* window full again).
C39_Witness ==
    /\ Len(last_call) = 2
    /\ last_call[1].op = "can_execute"
    /\ last_call[1].before = "OPEN"
    /\ last_call[1].after = "HALF_OPEN"
    /\ last_call[2].op = "can_execute"
    /\ last_call[2].before = "HALF_OPEN"
    /\ last_call[2].after = "OPEN"
    /\ circuit_state[last_call[2].service].opened_at = now

-----------------------------------------------------------------------------
(* Properties of the breaker under a long run of records (SpecFill) *)

\* C40: breaker state invariants.  For every service the state is CLOSED,
\* OPEN or HALF_OPEN, an OPEN circuit has opened_at set, a CLOSED one has it
\* unset, and failure_count is not negative; every action history holds at
\* most 100 timestamps, in non-decreasing order.
C40_BreakerInvariants ==
    /\ \A s \in Targets :
          /\ circuit_state[s].state \in {"CLOSED", "OPEN", "HALF_OPEN"}
          /\ circuit_state[s].state = "OPEN" => circuit_state[s].opened_at # None
          /\ circuit_state[s].state = "CLOSED" => circuit_state[s].opened_at = None
          /\ circuit_state[s].failure_count >= 0
    /\ \A k \in DOMAIN action_history :
          /\ Len(action_history[k]) <= HistoryMaxLen
          /\ \A i \in DOMAIN action_history[k] :
                i > 1 => action_history[k][i - 1] <= action_history[k][i]

\* MaxRecords attempts were recorded on the key and the circuit is OPEN since
\* the fourth call, so can_execute never evicted a timestamp: the deque is
\* full and has dropped its two oldest timestamps.
C40_Witness ==
    /\ calls = MaxRecords
    /\ Len(action_history[<<"ar_app", "restart_container">>]) = HistoryMaxLen
    /\ action_history[<<"ar_app", "restart_container">>][1]
          = StartTime + (MaxRecords - HistoryMaxLen) * FillStep
    /\ circuit_state["ar_app"].state = "OPEN"
    /\ circuit_state["ar_app"].opened_at = StartTime + max_failures * FillStep

-----------------------------------------------------------------------------
(* Properties of the breaker left alone (SpecDrain, FairSpecDrain) *)

\* The cooldown of the service has elapsed and every timestamp the breaker
\* holds for the key is older than window_seconds.
CooledAndDrained(s, a) ==
    /\ circuit_state[s].state = "OPEN"
          => now - circuit_state[s].opened_at >= cooldown_seconds
    /\ \A i \in DOMAIN action_history[<<s, a>>] :
          action_history[<<s, a>>][i] < now - window_seconds

\* C38: the breaker never blocks forever.  Once no further action is
\* recorded, with time advancing and can_execute being called, a can_execute
\* call is eventually allowed; and in every state a call made when the
\* cooldown has elapsed and the history of the key is older than the window
\* is allowed.
C38_NeverBlocksForever ==
    /\ [](\A s \in Targets, a \in ActionTypes :
             CooledAndDrained(s, a)
                => can_execute(circuit_state[s], action_history[<<s, a>>],
                               now).allowed)
    /\ (pc = "drain") ~> (pc = "drained")

\* After the last record_action a can_execute call made after the cooldown
\* re-opened the circuit, and a later call was allowed.
C38_Witness ==
    /\ pc = "drained"
    /\ Len(last_call) = 2
    /\ last_call[1].before = "OPEN"
    /\ last_call[1].after = "OPEN"
    /\ circuit_state[last_call[1].service].opened_at = last_call[1].t
    /\ last_call[2].t >= last_call[1].t + cooldown_seconds
    /\ last_call[2].before = "OPEN"
    /\ last_call[2].allowed

-----------------------------------------------------------------------------
(* Properties of the loop with exceptions (SpecFaults, FairSpecFaults) *)

\* C31: monitor loop liveness.  An exception that reaches the try of run
\* does not end the loop: the except clause sleeps poll_seconds and leaves
\* the deduplicator's times and the breaker's state and histories as the
\* interrupted iteration left them, and the next iteration begins.
C31_LoopSurvivesExceptions ==
    /\ [][pc = "except" =>
             /\ pc' = "poll"
             /\ now' = now + poll_seconds
             /\ UNCHANGED <<last_incident_time, circuit_state, action_history>>]_vars
    /\ \A n \in 0..MaxIterations :
          (pc = "except" /\ iteration = n) ~> (iteration = n + 1)

\* The iteration after one that an exception ended in handle_incidents is
\* handling its incidents, and the type of the interrupted incident is
\* dropped by the deduplicator because its time was kept.
C31_Witness ==
    /\ raised.where = "handle_incidents"
    /\ iteration = raised.iteration + 1
    /\ pc = "handle"
    /\ \E k \in DOMAIN handled : handled[k].dup
    /\ \E target \in Targets : circuit_state[target].last_attempt # None

\* C33: a cleanup failure does not abort the monitor.  No failed cleanup run
\* ends its iteration before the probe, and two cleanup runs are at least a
\* cleanup interval apart.
C33_CleanupFailureContained ==
    /\ \A i \in DOMAIN cleanup_log :
          cleanup_log[i].status = "raised"
              => ~(/\ raised.where = "run_cleanup_if_needed"
                   /\ raised.iteration = cleanup_log[i].iteration)
    /\ \A i, j \in DOMAIN cleanup_log :
          i < j => cleanup_log[j].t - cleanup_log[i].t
                      >= cleanup_interval_hours * SecondsPerHour

-----------------------------------------------------------------------------
(* Properties of the loop stopped by an interrupt (SpecShutdown) *)

\* C35: when the loop has exited on a termination signal the iteration it
\* was in is complete: the signal took effect in the sleep that ends the
\* iteration with every incident handled, and the last pass that called
\* can_execute made all the calls of a pass, so no action is executed
\* without being recorded, logged and resolved.
C35_ShutdownAfterTick ==
    pc = "stopped"
        => /\ raised.exception = "KeyboardInterrupt"
           /\ raised.where = "sleep"
           /\ pending = <<>>
           /\ gate.n > 0
                 => gate.calls = handle_incidents_calls(gate.allowed,
                                                        gate.incident_id,
                                                        gate.success)

-----------------------------------------------------------------------------
(* Properties of the loop with its notifications (SpecNotify) *)

\* C34: whatever the handlers do with the notifications of a pass of
\* handle_incidents (send returns True, returns False or raises), the pass
\* is the pass the loop makes when every notification is delivered: the
\* same deduplication, gating, execution, breaker record, action row and
\* resolution, and the loop stays in its iteration.
C34_UnsentNotificationKeepsControl ==
    [][(pc = "handle" /\ pending # <<>>) => HandlePass]_vars

\* A pass whose notifications no handler delivered, one of them raising,
\* that executed the action, recorded it, logged it and resolved the incident.
C34_Witness ==
    /\ notified.n > 0
    /\ ~notified.delivered
    /\ \E i \in DOMAIN notified.handlers : notified.handlers[i][2] = "raised"
    /\ notified.events = <<"incident_detected", "remediation_started",
                           "remediation_success">>
    /\ gate.allowed /\ gate.success
    /\ gate.calls = <<"can_execute", "execute_action", "record_action",
                      "log_remediation_action", "update_incident_resolved">>
    /\ \E r \in DOMAIN db_incidents :
          /\ db_incidents[r].id = gate.incident_id
          /\ db_incidents[r].status = "RESOLVED"

====
